---------------------------- MODULE Spec2Model ----------------------------
(***************************************************************************)
(* A model of fuzzytail's live file-tracking and rendering engine          *)
(* (src/src/tail.rs, src/src/colorizer.rs, src/src/filter.rs).             *)
(*                                                                         *)
(* Text is modelled as a sequence of characters, each character a one-     *)
(* element token: "a", "x", " ", "\n", ...; ESC stands for \x1b, TAB for   *)
(* \t, CR for \r, BEL for any other control character and "U+E9" for a     *)
(* character whose UTF-8 encoding is two bytes long.                       *)
(***************************************************************************)
EXTENDS Integers, Sequences, FiniteSets, TLC

(***************************************************************************)
(* Bounds of the model.                                                    *)
(***************************************************************************)
MaxFileLen == 4
MaxCap == 1
MaxTrackers == 2
MaxClock == 2

(***************************************************************************)
(* Generic helpers on sequences.                                           *)
(***************************************************************************)
Min(a, b) == IF a < b THEN a ELSE b
SatSub(a, b) == IF a > b THEN a - b ELSE 0

Drop(s, n) == SubSeq(s, n + 1, Len(s))
LastN(s, n) == Drop(s, SatSub(Len(s), n))

(***************************************************************************)
(* Character classes (char::is_ascii_alphabetic, char::is_control,         *)
(* char::is_whitespace, char::len_utf8).                                   *)
(***************************************************************************)
ESC == "ESC"
TAB == "TAB"
CR == "CR"
BEL == "BEL"
NL == "\n"
Wide == "U+E9"

Letters == {"a", "x", "m", "e", "r", "o", "b"}
Digits == {"0", "1", "2", "3", "4", "5", "6", "7", "8", "9"}
is_ascii_alphabetic(ch) == ch \in Letters
is_control(ch) == ch \in {ESC, TAB, CR, BEL, NL}
is_whitespace(ch) == ch \in {" ", TAB, CR, NL}
len_utf8(ch) == IF ch = Wide THEN 2 ELSE 1

(***************************************************************************)
(* Line Source: BufRead::read_line splits the bytes after every "\n" and   *)
(* returns an unterminated tail as a last line.                            *)
(***************************************************************************)
RECURSIVE read_lines(_, _)
read_lines(bytes, cur) ==
    IF bytes = <<>> THEN (IF cur = <<>> THEN <<>> ELSE <<cur>>)
    ELSE IF Head(bytes) = NL THEN <<Append(cur, NL)>> \o read_lines(Tail(bytes), <<>>)
    ELSE read_lines(Tail(bytes), Append(cur, Head(bytes)))

RECURSIVE trim_end(_)
trim_end(s) ==
    IF s # <<>> /\ is_whitespace(s[Len(s)]) THEN trim_end(SubSeq(s, 1, Len(s) - 1)) ELSE s

RECURSIVE trim_end_matches(_, _)
trim_end_matches(s, ch) ==
    IF s # <<>> /\ s[Len(s)] = ch THEN trim_end_matches(SubSeq(s, 1, Len(s) - 1), ch) ELSE s

MapSeq(s, F(_)) == [i \in 1..Len(s) |-> F(s[i])]

\* the clean lines a follow loop obtains from the bytes it reads
clean_lines(bytes) == MapSeq(read_lines(bytes, <<>>), trim_end)

get_last_n_lines(bytes, n) ==
    LET strip(l) == trim_end_matches(trim_end_matches(l, NL), CR)
    IN LastN(MapSeq(read_lines(bytes, <<>>), strip), n)

count_lines_in_file(bytes) == Len(read_lines(bytes, <<>>))

(***************************************************************************)
(* Regular expressions are modelled as fixed-length patterns: a sequence   *)
(* of character sets, matched against every substring of that length.      *)
(* An Option<T> is the empty sequence (None) or a one-element sequence     *)
(* (Some).                                                                 *)
(***************************************************************************)
None == <<>>
Some(v) == <<v>>
is_some(o) == o # <<>>
unwrap(o) == o[1]

Lit(s) == [i \in 1..Len(s) |-> {s[i]}]

\* Regex::new on text entered at a prompt: an unbalanced "(" does not compile
regex_compiles(str) == \A i \in 1..Len(str) : str[i] # "("

MatchAt(text, pat, i) ==
    /\ i + Len(pat) - 1 <= Len(text)
    /\ \A k \in 1..Len(pat) : text[i + k - 1] \in pat[k]

is_match(pat, text) ==
    IF pat = <<>> THEN TRUE ELSE \E i \in 1..Len(text) : MatchAt(text, pat, i)

\* Regex::find_iter: start indices (1-based) of the leftmost non-overlapping matches
RECURSIVE find_iter(_, _, _)
find_iter(pat, text, i) ==
    IF i > Len(text) \/ pat = <<>> THEN <<>>
    ELSE IF MatchAt(text, pat, i) THEN <<i>> \o find_iter(pat, text, i + Len(pat))
    ELSE find_iter(pat, text, i + 1)

(***************************************************************************)
(* LineFilter (src/src/filter.rs): an optional include pattern, an         *)
(* optional exclude pattern and an optional severity threshold, given by   *)
(* its LogLevel::priority (Emergency = 0 .. Debug = 7).                    *)
(***************************************************************************)
LowerCase == <<"a", "b", "c", "d", "e", "f", "g", "h", "i", "j", "k", "l", "m",
               "n", "o", "p", "q", "r", "s", "t", "u", "v", "w", "x", "y", "z">>
UpperCase == <<"A", "B", "C", "D", "E", "F", "G", "H", "I", "J", "K", "L", "M",
               "N", "O", "P", "Q", "R", "S", "T", "U", "V", "W", "X", "Y", "Z">>

to_uppercase(ch) ==
    IF \E i \in 1..26 : LowerCase[i] = ch
    THEN UpperCase[CHOOSE i \in 1..26 : LowerCase[i] = ch]
    ELSE ch

contains(text, word) == is_match(Lit(word), text)

\* the LogLevel::priority of the detected level, as an Option
detect_log_level(line) ==
    LET u == [i \in 1..Len(line) |-> to_uppercase(line[i])]
    IN IF contains(u, <<"E","M","E","R","G">>) THEN Some(0)
       ELSE IF contains(u, <<"A","L","E","R","T">>) THEN Some(1)
       ELSE IF contains(u, <<"C","R","I","T">>) THEN Some(2)
       ELSE IF contains(u, <<"E","R","R">>) THEN Some(3)
       ELSE IF contains(u, <<"W","A","R","N">>) THEN Some(4)
       ELSE IF contains(u, <<"N","O","T","I","C","E">>) THEN Some(5)
       ELSE IF contains(u, <<"I","N","F","O">>) THEN Some(6)
       ELSE IF contains(u, <<"D","E","B","U","G">>) \/ contains(u, <<"T","R","A","C","E">>)
            THEN Some(7)
       ELSE None

\* a line with no detected level passes under every threshold
line_matches_level_lenient(line, target_level) ==
    LET detected == detect_log_level(line)
    IN IF is_some(detected) THEN unwrap(detected) <= target_level
       ELSE TRUE

line_matches_level(line, target_level) ==
    LET detected == detect_log_level(line)
    IN IF is_some(detected) THEN unwrap(detected) <= target_level
       ELSE target_level \in {6, 7}

\* a line that matches the include pattern is shown whatever the exclude pattern
should_show_line_include_wins(f, line) ==
    IF is_some(f.include_regex) /\ is_match(unwrap(f.include_regex), line) THEN TRUE
    ELSE IF is_some(f.exclude_regex) /\ is_match(unwrap(f.exclude_regex), line) THEN FALSE
    ELSE IF is_some(f.include_regex) THEN FALSE
    ELSE IF is_some(f.level_filter) /\ ~line_matches_level(line, unwrap(f.level_filter))
         THEN FALSE
    ELSE TRUE

should_show_line(f, line) ==
    IF is_some(f.exclude_regex) /\ is_match(unwrap(f.exclude_regex), line) THEN FALSE
    ELSE IF is_some(f.include_regex) /\ ~is_match(unwrap(f.include_regex), line) THEN FALSE
    ELSE IF is_some(f.level_filter) /\ ~line_matches_level(line, unwrap(f.level_filter))
         THEN FALSE
    ELSE TRUE

\* an expression that does not compile is taken as a literal
LineFilter_new_lenient(include, exclude, level) ==
    Some([include_regex |-> IF is_some(include) THEN Some(Lit(unwrap(include))) ELSE None,
          exclude_regex |-> IF is_some(exclude) THEN Some(Lit(unwrap(exclude))) ELSE None,
          level_filter |-> level])

\* LineFilter::new on optional expression strings: Some(filter), or None for Err
LineFilter_new(include, exclude, level) ==
    IF \/ is_some(include) /\ ~regex_compiles(unwrap(include))
       \/ is_some(exclude) /\ ~regex_compiles(unwrap(exclude))
    THEN None
    ELSE Some([include_regex |-> IF is_some(include) THEN Some(Lit(unwrap(include))) ELSE None,
               exclude_regex |-> IF is_some(exclude) THEN Some(Lit(unwrap(exclude))) ELSE None,
               level_filter |-> level])

(***************************************************************************)
(* Colorizer (src/src/colorizer.rs) and theme colors (src/src/theme.rs).   *)
(* A Color is <<n>> (Xterm256) or <<r, g, b>> (TrueColor); a ColorRule is  *)
(* a record of a pattern and a color; a Theme has line_rules, word_rules   *)
(* and an optional base_color.                                             *)
(***************************************************************************)
RECURSIVE Decimal(_)
Decimal(n) ==
    LET d == <<"0", "1", "2", "3", "4", "5", "6", "7", "8", "9">>[(n % 10) + 1]
    IN IF n < 10 THEN <<d>> ELSE Append(Decimal(n \div 10), d)

\* Color::to_ansi_fg
to_ansi_fg(color) ==
    IF Len(color) = 1
    THEN <<ESC, "[", "3", "8", ";", "5", ";">> \o Decimal(color[1]) \o <<"m">>
    ELSE <<ESC, "[", "3", "8", ";", "2", ";">> \o Decimal(color[1]) \o <<";">>
             \o Decimal(color[2]) \o <<";">> \o Decimal(color[3]) \o <<"m">>

\* Color::to_ansi_reset
to_ansi_reset == <<ESC, "[", "0", "m">>

wrap_entire_line(line, color) == to_ansi_fg(color) \o line \o to_ansi_reset

\* Colorizer::wrap_with_base_restore
wrap_with_base_restore(theme, text, color) ==
    LET reset == IF is_some(theme.base_color)
                 THEN <<ESC, "[", "3", "8", ";", "5", ";">>
                          \o Decimal(unwrap(theme.base_color)) \o <<"m">>
                 ELSE <<ESC, "[", "3", "9", "m">>
    IN to_ansi_fg(color) \o text \o reset

\* one match of ansi_span_regex  \x1b\[[0-9;]*m.*?\x1b\[0m  starting at index i:
\* the index just past the match, or 0 when there is no match at i
RECURSIVE SkipParams(_, _)
SkipParams(text, j) ==
    IF j <= Len(text) /\ text[j] \in (Digits \cup {";"}) THEN SkipParams(text, j + 1) ELSE j

RECURSIVE FindReset(_, _)
FindReset(text, k) ==
    IF k + 3 > Len(text) THEN 0
    ELSE IF SubSeq(text, k, k + 3) = to_ansi_reset THEN k + 4
    ELSE IF text[k] = NL THEN 0
    ELSE FindReset(text, k + 1)

AnsiSpanAt(text, i) ==
    IF i + 1 <= Len(text) /\ text[i] = ESC /\ text[i + 1] = "["
    THEN LET j == SkipParams(text, i + 2)
         IN IF j <= Len(text) /\ text[j] = "m" THEN FindReset(text, j + 1) ELSE 0
    ELSE 0

\* ansi_span_regex.find_iter(text): the spans <<start, end>> (end exclusive)
RECURSIVE ansi_spans(_, _)
ansi_spans(text, i) ==
    IF i > Len(text) THEN <<>>
    ELSE LET e == AnsiSpanAt(text, i)
         IN IF e # 0 THEN <<(<<i, e>>)>> \o ansi_spans(text, e) ELSE ansi_spans(text, i + 1)

\* Colorizer::is_inside_ansi_sequence
is_inside_ansi_sequence(text, pos) ==
    LET spans == ansi_spans(text, 1)
    IN \E k \in 1..Len(spans) : pos >= spans[k][1] /\ pos < spans[k][2]

\* Colorizer::apply_word_rule: Regex::replace_all over the matches of the rule
RECURSIVE ReplaceAll(_, _, _, _)
ReplaceAll(theme, text, rule, i) ==
    IF i > Len(text) THEN <<>>
    ELSE IF rule.pattern # <<>> /\ MatchAt(text, rule.pattern, i)
    THEN LET matched_text == SubSeq(text, i, i + Len(rule.pattern) - 1)
         IN (IF is_inside_ansi_sequence(text, i) THEN matched_text
             ELSE wrap_with_base_restore(theme, matched_text, rule.color))
            \o ReplaceAll(theme, text, rule, i + Len(rule.pattern))
    ELSE <<text[i]>> \o ReplaceAll(theme, text, rule, i + 1)

apply_word_rule(theme, text, rule) == ReplaceAll(theme, text, rule, 1)

RECURSIVE ApplyWordRules(_, _, _)
ApplyWordRules(theme, text, rules) ==
    IF rules = <<>> THEN text
    ELSE ApplyWordRules(theme, apply_word_rule(theme, text, Head(rules)), Tail(rules))

\* the last matching line rule instead of the first
LastLineRule(rules, line) ==
    LET matching == {k \in 1..Len(rules) : is_match(rules[k].pattern, line)}
    IN IF matching = {} THEN None
       ELSE Some(rules[CHOOSE k \in matching : \A j \in matching : j <= k])

\* for rule in &self.theme.line_rules: the first rule whose pattern matches
RECURSIVE FirstLineRule(_, _)
FirstLineRule(rules, line) ==
    IF rules = <<>> THEN None
    ELSE IF is_match(Head(rules).pattern, line) THEN Some(Head(rules))
    ELSE FirstLineRule(Tail(rules), line)

\* Colorizer::colorize_line
colorize_line(theme, no_color, line) ==
    IF no_color THEN line
    ELSE LET lr == FirstLineRule(theme.line_rules, line)
         IN IF is_some(lr) THEN wrap_entire_line(line, unwrap(lr).color)
            ELSE LET result == ApplyWordRules(theme, line, theme.word_rules)
                 IN IF is_some(theme.base_color)
                    THEN <<ESC, "[", "3", "8", ";", "5", ";">>
                             \o Decimal(unwrap(theme.base_color)) \o <<"m">>
                             \o result \o <<ESC, "[", "0", "m">>
                    ELSE result

(***************************************************************************)
(* Ansi Text Ops (src/src/tail.rs): pad_ansi and highlight_search_matches. *)
(***************************************************************************)
Spaces(n) == [i \in 1..n |-> " "]

\* the for loop of pad_ansi over s[i..]; yields the result and the visible count
RECURSIVE PadLoop(_, _, _, _, _, _)
PadLoop(s, i, max_width, result, visible, in_escape) ==
    IF i > Len(s) THEN [result |-> result, visible |-> visible]
    ELSE LET ch == s[i]
         IN IF in_escape
            THEN PadLoop(s, i + 1, max_width, Append(result, ch), visible,
                         ~is_ascii_alphabetic(ch))
            ELSE IF ch = ESC
            THEN IF visible >= max_width THEN [result |-> result, visible |-> visible]
                 ELSE PadLoop(s, i + 1, max_width, Append(result, ch), visible, TRUE)
            ELSE IF ch = TAB
            THEN LET spaces == 4 - (visible % 4)
                     n == Min(spaces, SatSub(max_width, visible))
                 IN PadLoop(s, i + 1, max_width, result \o Spaces(n), visible + n, FALSE)
            ELSE IF visible >= max_width THEN [result |-> result, visible |-> visible]
            ELSE IF ~is_control(ch)
            THEN PadLoop(s, i + 1, max_width, Append(result, ch), visible + 1, FALSE)
            ELSE PadLoop(s, i + 1, max_width, result, visible, FALSE)

\* pad_ansi without the style reset before the padding
pad_ansi_without_reset(s, max_width) ==
    LET r == PadLoop(s, 1, max_width, <<>>, 0, FALSE)
    IN r.result \o Spaces(SatSub(max_width, r.visible))

pad_ansi(s, max_width) ==
    LET r == PadLoop(s, 1, max_width, <<>>, 0, FALSE)
    IN r.result \o <<ESC, "[", "0", "m">> \o Spaces(SatSub(max_width, r.visible))

\* byte offset (0-based) of the character at index i (1-based) of a string
RECURSIVE ByteOffset(_, _)
ByteOffset(s, i) == IF i <= 1 THEN 0 ELSE ByteOffset(s, i - 1) + len_utf8(s[i - 1])

\* re.find_iter(raw).map(|m| (m.start(), m.end())): byte ranges, end exclusive
match_ranges(raw, re) ==
    LET starts == find_iter(re, raw, 1)
    IN [k \in 1..Len(starts) |->
          <<ByteOffset(raw, starts[k]), ByteOffset(raw, starts[k] + Len(re))>>]

REVERSE_ON == <<ESC, "[", "7", "m">>
REVERSE_OFF == <<ESC, "[", "2", "7", "m">>

\* the for loop of highlight_search_matches over colored[i..]
RECURSIVE HighlightLoop(_, _, _, _, _, _, _)
HighlightLoop(colored, i, ranges, result, visible_pos, in_escape, in_highlight) ==
    IF i > Len(colored) THEN (IF in_highlight THEN result \o REVERSE_OFF ELSE result)
    ELSE LET ch == colored[i]
         IN IF in_escape
            THEN HighlightLoop(colored, i + 1, ranges, Append(result, ch), visible_pos,
                               ~is_ascii_alphabetic(ch), in_highlight)
            ELSE IF ch = ESC
            THEN HighlightLoop(colored, i + 1, ranges, Append(result, ch), visible_pos,
                               TRUE, in_highlight)
            ELSE IF is_control(ch)
            THEN HighlightLoop(colored, i + 1, ranges, Append(result, ch), visible_pos,
                               FALSE, in_highlight)
            ELSE LET should_highlight ==
                         \E k \in 1..Len(ranges) :
                             visible_pos >= ranges[k][1] /\ visible_pos < ranges[k][2]
                     mark == IF should_highlight /\ ~in_highlight THEN REVERSE_ON
                             ELSE IF ~should_highlight /\ in_highlight THEN REVERSE_OFF
                             ELSE <<>>
                 IN HighlightLoop(colored, i + 1, ranges, (result \o mark) \o <<ch>>,
                                  visible_pos + 1, FALSE, should_highlight)

highlight_search_matches(colored, raw, re) ==
    LET ranges == match_ranges(raw, re)
    IN IF ranges = <<>> THEN colored
       ELSE HighlightLoop(colored, 1, ranges, <<>>, 0, FALSE, FALSE)

(***************************************************************************)
(* The follow session: the file system, the FileTracker collection of      *)
(* follow_multiple_files_panes / follow_multiple_files_scroll and the      *)
(* position of the event loop.                                             *)
(***************************************************************************)
VARIABLES
    mode,              \* "panes", "scroll" or "single": which follow loop runs;
                       \* "setup", "panes_setup", ...: the session is being set up;
                       \* "popup", "stopped", "failed", "returned_ok", "returned_err"
    inodes,            \* inodes[i]: the bytes of the file with identity i
    pathIno,           \* the identity of the file now at the tracked path
    trackers,          \* file_trackers: a sequence of FileTracker records
    max_buffer_lines,  \* TailProcessor.max_buffer_lines
    filter,            \* TailProcessor.filter, the global filter
    pc,                \* 1..Len(trackers): next tracker to poll; 0: keyboard step
    content_changed,   \* the flag of the current loop iteration
    clock,             \* SystemTime::now(), in ticks
    nextTid,           \* identity given to the next tracker created
    ret,               \* what the last poll returned, which branch it took, what it
                       \* pushed or printed and the offset it started from; or how
                       \* the last set-filter command ended
    rx,                \* the channel of watcher events not yet received by the loop
    running,           \* the flag the interrupt handler clears
    terminal,          \* the terminal: raw mode, alternate screen, and the terminal
                       \* calls follow_multiple_files has issued
    fn_pc,             \* text operations: "idle", "input" (arguments chosen), "done"
    fn_in,             \* text operations: the arguments of the call
    fn_out             \* text operations: the string returned

loopvars == <<rx, running>>
svars == <<mode, inodes, pathIno, trackers, max_buffer_lines, filter, pc,
           content_changed, clock, nextTid, ret, loopvars, terminal>>
fnvars == <<fn_pc, fn_in, fn_out>>
vars == <<svars, fnvars>>

\* the rule set of the session and its no_color flag
SessionTheme ==
    [line_rules |-> <<>>,
     word_rules |-> <<[pattern |-> Lit(<<"x">>), color |-> <<1>>]>>,
     base_color |-> None]
SessionNoColor == FALSE
colorize(line) == colorize_line(SessionTheme, SessionNoColor, line)

\* lines preloaded by the pane loop and by the scroll loop; capacity of the scroll loop
PaneInitialLines == 100
ScrollInitialLines == 5
ScrollMaxLines == 10

\* the file identities that occur: the file first at the path and its replacement
Identities == {1, 2}

\* what a writer appends in one write
WriteChunks == {<<"a", NL>>, <<"x", NL>>}
InitContents == {<<>>, <<"a", NL, "a", NL>>}
ShowAll == [include_regex |-> None, exclude_regex |-> None, level_filter |-> None]
ExcludeX == [include_regex |-> None, exclude_regex |-> Some(Lit(<<"x">>)), level_filter |-> None]

(***************************************************************************)
(* FileTracker.  Besides the fields of the struct a tracker record has     *)
(* tid, which names the tracker whatever its index, and two histories:     *)
(* pushed, the last max_lines + 1 raw lines that polls pushed since the    *)
(* tracker was created or its buffers were cleared, and polled, the raw    *)
(* lines pushed by the poll in progress.                                   *)
(***************************************************************************)
\* eviction at the wrong end: pop_back instead of pop_front
evict_newest(buf, max_lines) == SubSeq(buf, 1, Min(max_lines, Len(buf)))

\* while buf.len() > max_lines { buf.pop_front() }
evict(buf, max_lines) == LastN(buf, max_lines)

\* the override of the window is never used
active_filter_global_only(t, global) == global

\* tracker.filter.as_ref().unwrap_or(&self.filter)
active_filter(t, global) == IF is_some(t.filter) THEN unwrap(t.filter) ELSE global

\* only the styled buffer is trimmed to the capacity
push_line_raw_unbounded(t, global, clean_line, now) ==
    IF should_show_line(active_filter(t, global), clean_line)
    THEN [t EXCEPT !.lines = evict(Append(t.lines, colorize(clean_line)), t.max_lines),
                   !.raw_lines = Append(t.raw_lines, clean_line),
                   !.line_count = t.line_count + 1,
                   !.last_update = now,
                   !.pushed = LastN(Append(t.pushed, clean_line), t.max_lines + 1),
                   !.polled = Append(t.polled, clean_line)]
    ELSE t

\* the body of the read_line loops of check_file_updates for one clean line
push_line(t, global, clean_line, now) ==
    IF should_show_line(active_filter(t, global), clean_line)
    THEN [t EXCEPT !.lines = evict(Append(t.lines, colorize(clean_line)), t.max_lines),
                   !.raw_lines = evict(Append(t.raw_lines, clean_line), t.max_lines),
                   !.line_count = t.line_count + 1,
                   !.last_update = now,
                   !.pushed = LastN(Append(t.pushed, clean_line), t.max_lines + 1),
                   !.polled = Append(t.polled, clean_line)]
    ELSE t

RECURSIVE push_lines(_, _, _, _)
push_lines(t, global, ls, now) ==
    IF ls = <<>> THEN t ELSE push_lines(push_line(t, global, Head(ls), now), global, Tail(ls), now)

\* the initial load of a tracker: the last n lines that pass the global filter
RECURSIVE initial_load(_, _, _, _)
initial_load(t, global, ls, with_raw) ==
    IF ls = <<>> THEN t
    ELSE initial_load(
           IF should_show_line(global, Head(ls))
           THEN [t EXCEPT !.lines = Append(t.lines, colorize(Head(ls))),
                          !.raw_lines = IF with_raw THEN Append(t.raw_lines, Head(ls))
                                        ELSE t.raw_lines]
           ELSE t,
           global, Tail(ls), with_raw)

\* the tracker follow_multiple_files_panes builds (at startup and on add file)
new_pane_tracker(tid, ino, bytes, cap, global, now) ==
    initial_load([tid |-> tid, file |-> ino, position |-> Len(bytes), lines |-> <<>>,
                  raw_lines |-> <<>>, max_lines |-> cap,
                  line_count |-> count_lines_in_file(bytes), last_update |-> now,
                  file_id |-> ino, paused |-> FALSE, filter |-> None, search_term |-> None,
                  pushed |-> <<>>, polled |-> <<>>],
                 global, get_last_n_lines(bytes, PaneInitialLines), TRUE)

\* the tracker follow_multiple_files_scroll builds
new_scroll_tracker(tid, ino, bytes, global, now) ==
    initial_load([tid |-> tid, file |-> ino, position |-> Len(bytes), lines |-> <<>>,
                  raw_lines |-> <<>>, max_lines |-> ScrollMaxLines,
                  line_count |-> 0, last_update |-> now,
                  file_id |-> ino, paused |-> FALSE, filter |-> None, search_term |-> None,
                  pushed |-> <<>>, polled |-> <<>>],
                 global, get_last_n_lines(bytes, ScrollInitialLines), FALSE)

\* tracker.lines.clear(); tracker.raw_lines.clear()
clear_buffers(t) == [t EXCEPT !.lines = <<>>, !.raw_lines = <<>>, !.pushed = <<>>]

(***************************************************************************)
(* TailProcessor::check_file_updates, one poll of tracker t.  fs is the    *)
(* file system (inode -> bytes) and path_id the identity now at the path.  *)
(* open_ok: whether File::open of the path succeeds.  extra_old and        *)
(* extra_new are the bytes a writer appends between the moment the poll    *)
(* samples the size of the handle and the moment it reads to end of file.  *)
(***************************************************************************)
\* a poll that ignores the paused flag
skip_updates_never(t) == FALSE

\* if tracker.paused { return Ok((false, false)) }
skip_updates(t) == t.paused

\* a read that leaves the position at the start of the file
read_to_end_rewinding(t, global, bytes, sampled_size, now) ==
    [push_lines(t, global, clean_lines(Drop(bytes, t.position)), now)
       EXCEPT !.position = 0]

\* seek to tracker.position, read every line up to end of file, then set the
\* position to the size sampled before the read
read_to_end(t, global, bytes, sampled_size, now) ==
    [push_lines(t, global, clean_lines(Drop(bytes, t.position)), now)
       EXCEPT !.position = sampled_size]

\* a reopen that keeps the offset reached in the old file
reopen_keeping_position(t, path_id) == [t EXCEPT !.file = path_id, !.file_id = path_id]

\* the Ok arm of File::open(&tracker.path)
reopen(t, path_id) == [t EXCEPT !.file = path_id, !.position = 0, !.file_id = path_id]

\* a truncation branch that clears the buffers but keeps the offset
truncate_reset_keeping_position(t) == [clear_buffers(t) EXCEPT !.line_count = 0]

\* the branch current_size < tracker.position && !rotated
truncate_reset(t) ==
    [clear_buffers(t) EXCEPT !.position = 0, !.line_count = 0]

\* a read_line loop over the handle of t: the file system afterwards (with the
\* bytes a writer added in the meantime) and the tracker
read_handle(t, fs1, sampled_size, global, now) ==
    [t |-> read_to_end(t, global, fs1[t.file], sampled_size, now), fs |-> fs1]

\* drain remaining data from the old (rotated) file before switching
drain_old(t, fs, global, now, extra_old) ==
    IF Len(fs[t.file]) > t.position
    THEN read_handle(t, [fs EXCEPT ![t.file] = @ \o extra_old], Len(fs[t.file]), global, now)
    ELSE [t |-> t, fs |-> fs]

\* reopen the new file at the same path; s is the tracker and the file system
switch_file(s, path_id) == [t |-> reopen(s.t, path_id), fs |-> s.fs]

with_event(s, ev) == [t |-> s.t, fs |-> s.fs, ev |-> ev]

\* the size check never finds new bytes
read_current_finds_nothing(s, rotated, global, now, extra_new) == with_event(s, "idle")

\* from let current_size = tracker.file.metadata()?.len() to the end of the branches
read_current(s, rotated, global, now, extra_new) ==
    IF Len(s.fs[s.t.file]) > s.t.position
    THEN with_event(read_handle(s.t, [s.fs EXCEPT ![s.t.file] = @ \o extra_new],
                                Len(s.fs[s.t.file]), global, now),
                    "grew")
    ELSE IF Len(s.fs[s.t.file]) < s.t.position /\ ~rotated
    THEN [t |-> truncate_reset(s.t), fs |-> s.fs, ev |-> "truncated"]
    ELSE with_event(s, "idle")

\* Ok((rotated, tracker.line_count != old_line_count))
poll_result(s, rotated, old_line_count) ==
    [t |-> s.t, fs |-> s.fs, rotated |-> rotated,
     had_new |-> (s.t.line_count # old_line_count),
     ev |-> IF rotated THEN "rotated" ELSE s.ev]

\* a failed reopen that rewinds the old handle
reopen_failed_rewinding(s) ==
    [t |-> [s.t EXCEPT !.position = 0], fs |-> s.fs, rotated |-> FALSE, had_new |-> FALSE,
     ev |-> "reopen_failed"]

\* the Err arm of File::open: return Ok((false, false))
reopen_failed(s) ==
    [t |-> s.t, fs |-> s.fs, rotated |-> FALSE, had_new |-> FALSE, ev |-> "reopen_failed"]

check_file_updates(t, fs, path_id, global, now, open_ok, extra_old, extra_new) ==
    IF skip_updates(t)
    THEN [t |-> t, fs |-> fs, rotated |-> FALSE, had_new |-> FALSE, ev |-> "paused"]
    ELSE IF t.file_id # path_id
    THEN IF open_ok
         THEN poll_result(
                read_current(switch_file(drain_old(t, fs, global, now, extra_old), path_id),
                             TRUE, global, now, extra_new),
                TRUE, t.line_count)
         ELSE reopen_failed(drain_old(t, fs, global, now, extra_old))
    ELSE poll_result(read_current([t |-> t, fs |-> fs], FALSE, global, now, extra_new),
                     FALSE, t.line_count)

(***************************************************************************)
(* One iteration of the for loop of follow_multiple_files_scroll for       *)
(* tracker t: lines are printed, the buffers are not touched.              *)
(***************************************************************************)
RECURSIVE printed_lines(_, _)
printed_lines(global, ls) ==
    IF ls = <<>> THEN <<>>
    ELSE (IF should_show_line(global, Head(ls)) THEN <<colorize(Head(ls))>> ELSE <<>>)
         \o printed_lines(global, Tail(ls))

\* a read_line loop of the scroll loop over the handle of s.t: the lines are
\* printed and the position becomes the sampled size
scroll_read(s, fs1, sampled_size, global) ==
    [t |-> [s.t EXCEPT !.position = sampled_size], fs |-> fs1,
     printed |-> s.printed
                   \o printed_lines(global, clean_lines(Drop(fs1[s.t.file], s.t.position)))]

\* drain remaining data from the old (rotated) file
scroll_drain(s, global, extra_old) ==
    IF Len(s.fs[s.t.file]) > s.t.position
    THEN scroll_read(s, [s.fs EXCEPT ![s.t.file] = @ \o extra_old], Len(s.fs[s.t.file]),
                     global)
    ELSE s

\* if let Ok(new_file) = File::open(&tracker.path)
scroll_switch(s, path_id) ==
    [s EXCEPT !.t = [@ EXCEPT !.file = path_id, !.position = 0, !.file_id = path_id]]

\* from let current_size = tracker.file.metadata()?.len() to the end of the branches
scroll_current(s, was_rotated, detected, global, extra_new) ==
    LET ev(branch) == IF was_rotated THEN "rotated"
                      ELSE IF detected THEN "reopen_failed" ELSE branch
        done(s1, branch) ==
            [t |-> s1.t, fs |-> s1.fs, rotated |-> was_rotated,
             had_new |-> (s1.printed # <<>>), ev |-> ev(branch), printed |-> s1.printed]
    IN IF Len(s.fs[s.t.file]) > s.t.position
       THEN done(scroll_read(s, [s.fs EXCEPT ![s.t.file] = @ \o extra_new],
                             Len(s.fs[s.t.file]), global),
                 "grew")
       ELSE IF Len(s.fs[s.t.file]) < s.t.position /\ ~was_rotated
       THEN done([s EXCEPT !.t.position = 0], "truncated")
       ELSE done(s, "idle")

scroll_poll(t, fs, path_id, global, open_ok, extra_old, extra_new) ==
    IF t.file_id # path_id
    THEN IF open_ok
         THEN scroll_current(
                scroll_switch(scroll_drain([t |-> t, fs |-> fs, printed |-> <<>>],
                                           global, extra_old),
                              path_id),
                TRUE, TRUE, global, extra_new)
         ELSE scroll_current(scroll_drain([t |-> t, fs |-> fs, printed |-> <<>>],
                                          global, extra_old),
                             FALSE, TRUE, global, extra_new)
    ELSE scroll_current([t |-> t, fs |-> fs, printed |-> <<>>], FALSE, FALSE, global,
                        extra_new)

(***************************************************************************)
(* TailProcessor::follow_file, one iteration of the loop that follows a    *)
(* single file.  Its locals file, pos and file_id are kept in a record of  *)
(* the shape of a tracker (file, position, file_id).                       *)
(***************************************************************************)
new_follow_tracker(ino, bytes) ==
    [tid |-> 1, file |-> ino, position |-> Len(bytes), lines |-> <<>>, raw_lines |-> <<>>,
     max_lines |-> 0, line_count |-> 0, last_update |-> 0, file_id |-> ino,
     paused |-> FALSE, filter |-> None, search_term |-> None, pushed |-> <<>>,
     polled |-> <<>>]

\* drain remaining data from the old (rotated) file; pos is left as it was
follow_drain(s, global, extra_old) ==
    IF Len(s.fs[s.t.file]) > s.t.position
    THEN [scroll_read(s, [s.fs EXCEPT ![s.t.file] = @ \o extra_old], Len(s.fs[s.t.file]),
                      global)
            EXCEPT !.t.position = s.t.position]
    ELSE s

follow_done(s, rotated, branch) ==
    [t |-> s.t, fs |-> s.fs, rotated |-> rotated, had_new |-> (s.printed # <<>>),
     ev |-> IF rotated THEN "rotated" ELSE branch, printed |-> s.printed]

\* from let current_size = file.seek(SeekFrom::End(0))? to the end of the branches
follow_current(s, rotated, global, extra_new) ==
    IF Len(s.fs[s.t.file]) > s.t.position
    THEN follow_done(scroll_read(s, [s.fs EXCEPT ![s.t.file] = @ \o extra_new],
                                 Len(s.fs[s.t.file]), global),
                     rotated, "grew")
    ELSE IF Len(s.fs[s.t.file]) < s.t.position
    THEN follow_done([s EXCEPT !.t.position = 0], rotated, "truncated")
    ELSE follow_done(s, rotated, "idle")

\* the body of the while loop up to rx.try_recv(); a failed reopen ends the
\* iteration at once (continue)
follow_poll(t, fs, path_id, global, open_ok, extra_old, extra_new) ==
    IF t.file_id # path_id
    THEN IF open_ok
         THEN follow_current(
                scroll_switch(follow_drain([t |-> t, fs |-> fs, printed |-> <<>>],
                                           global, extra_old),
                              path_id),
                TRUE, global, extra_new)
         ELSE follow_done(follow_drain([t |-> t, fs |-> fs, printed |-> <<>>],
                                       global, extra_old),
                          FALSE, "reopen_failed")
    ELSE follow_current([t |-> t, fs |-> fs, printed |-> <<>>], FALSE, global, extra_new)

(***************************************************************************)
(* TailProcessor::follow_multiple_files: the terminal is put into raw mode *)
(* and the alternate screen for the pane loop; if either step fails the    *)
(* scroll loop runs instead.  A terminal is a record of its raw-mode flag, *)
(* its alternate-screen flag and the sequence of calls issued so far.      *)
(***************************************************************************)
PlainTerminal == [raw |-> FALSE, alt |-> FALSE, issued |-> <<>>]

\* enable_raw_mode()
enable_raw_mode(tm, ok) ==
    [tm EXCEPT !.raw = (@ \/ ok), !.issued = Append(@, "enable_raw_mode")]

\* execute!(stdout, EnterAlternateScreen, Hide)
enter_alternate_screen(tm, ok) ==
    [tm EXCEPT !.alt = (@ \/ ok), !.issued = @ \o <<"EnterAlternateScreen", "Hide">>]

\* let _ = disable_raw_mode()
disable_raw_mode(tm) ==
    [tm EXCEPT !.raw = FALSE, !.issued = Append(@, "disable_raw_mode")]

\* let _ = execute!(stdout, Show, LeaveAlternateScreen)
leave_alternate_screen(tm) ==
    [tm EXCEPT !.alt = FALSE, !.issued = @ \o <<"Show", "LeaveAlternateScreen">>]

\* follow_multiple_files up to the call of the loop it chooses
choose_loop(tm, raw_ok, alt_ok) ==
    IF ~raw_ok THEN [term |-> enable_raw_mode(tm, FALSE), mode |-> "scroll_setup"]
    ELSE IF ~alt_ok
    THEN [term |-> disable_raw_mode(enter_alternate_screen(enable_raw_mode(tm, TRUE), FALSE)),
          mode |-> "scroll_setup"]
    ELSE [term |-> enter_alternate_screen(enable_raw_mode(tm, TRUE), TRUE),
          mode |-> "panes_setup"]

\* the terminal is restored only when the pane loop returned Ok
restore_unless_error(tm, result_ok) ==
    IF result_ok THEN disable_raw_mode(leave_alternate_screen(tm)) ELSE tm

\* follow_multiple_files after follow_multiple_files_panes has returned result
restore_terminal(tm, result_ok) == disable_raw_mode(leave_alternate_screen(tm))

\* the terminal a follow loop runs in: the pane loop after both steps succeeded,
\* the scroll loop after enable_raw_mode failed, follow_file in a terminal left
\* as it was
terminal_of(loop) ==
    IF loop = "panes" THEN choose_loop(PlainTerminal, TRUE, TRUE).term
    ELSE IF loop = "scroll" THEN choose_loop(PlainTerminal, FALSE, FALSE).term
    ELSE PlainTerminal

(***************************************************************************)
(* The initial state: the state follow_multiple_files_panes (or _scroll)   *)
(* is in when it enters its loop.                                          *)
(***************************************************************************)
\* the files the session follows (the windows left open)
Files == <<"p">>

NoRet == [rotated |-> FALSE, had_new |-> FALSE, ev |-> "none", pushed |-> <<>>,
          printed |-> <<>>, position_before |-> 0]

Init ==
    /\ mode \in {"panes", "scroll"}
    /\ \E c \in InitContents : inodes = <<c>>
    /\ pathIno = 1
    /\ max_buffer_lines \in 0..MaxCap
    /\ filter = ExcludeX
    /\ trackers =
         [k \in 1..Len(Files) |->
            IF mode = "panes"
            THEN new_pane_tracker(k, 1, inodes[1], max_buffer_lines, filter, 0)
            ELSE new_scroll_tracker(k, 1, inodes[1], filter, 0)]
    /\ pc = 1
    /\ content_changed = FALSE
    /\ clock = 0
    /\ nextTid = Len(Files) + 1
    /\ ret = NoRet
    /\ rx = <<>>
    /\ running = TRUE
    /\ terminal = terminal_of(mode)
    /\ fn_pc = "idle" /\ fn_in = <<>> /\ fn_out = <<>>

(***************************************************************************)
(* The environment: writers, log rotation and copy-truncate.               *)
(***************************************************************************)
\* the environment's steps are taken while the loop sleeps between two iterations
\* (pc = 1) or, as Races, inside a poll between its size sample and its read
Running == mode \in {"panes", "scroll", "single"} /\ pc = 1
Held(i) == i = pathIno \/ \E k \in 1..Len(trackers) : trackers[k].file = i
Races == {<<>>} \cup WriteChunks

\* a writer appends to the file at the path, or to a rotated-away file it still has open
EnvAppend ==
    /\ Running
    /\ \E i \in 1..Len(inodes), chunk \in WriteChunks :
         /\ Held(i)
         /\ Len(inodes[i]) + Len(chunk) <= MaxFileLen
         /\ inodes' = [inodes EXCEPT ![i] = @ \o chunk]
    /\ ret' = NoRet
    /\ UNCHANGED <<mode, pathIno, trackers, max_buffer_lines, filter, pc,
                   content_changed, clock, nextTid>>
    /\ UNCHANGED <<fnvars, loopvars, terminal>>

\* the path is replaced by a new, empty file of a new identity
EnvRotate ==
    /\ Running
    /\ Len(inodes) + 1 \in Identities
    /\ inodes' = Append(inodes, <<>>)
    /\ pathIno' = Len(inodes) + 1
    /\ ret' = NoRet
    /\ UNCHANGED <<mode, trackers, max_buffer_lines, filter, pc,
                   content_changed, clock, nextTid>>
    /\ UNCHANGED <<fnvars, loopvars, terminal>>

\* the file at the path is truncated in place
EnvTruncate ==
    /\ Running
    /\ inodes[pathIno] # <<>>
    /\ inodes' = [inodes EXCEPT ![pathIno] = <<>>]
    /\ ret' = NoRet
    /\ UNCHANGED <<mode, pathIno, trackers, max_buffer_lines, filter, pc,
                   content_changed, clock, nextTid>>
    /\ UNCHANGED <<fnvars, loopvars, terminal>>

(***************************************************************************)
(* The pane loop (follow_multiple_files_panes): the for loop polls the     *)
(* trackers in order (pc = 1 .. Len(trackers)); then the frame is rendered *)
(* if content changed and the keyboard is checked (pc = 0).                *)
(***************************************************************************)
\* what can happen during a poll of tracker t: File::open fails only when the
\* poll reopens the path; a writer's bytes are seen only by a read that happens.
\* falls_through: after a failed reopen the poll goes on to the size check
PollOutcomes(t, fs, path_id, falls_through) ==
    LET detected == ~t.paused /\ t.file_id # path_id
        drains == detected /\ Len(fs[t.file]) > t.position
        room(i) == {w \in Races : Len(fs[i]) + Len(w) <= MaxFileLen}
    IN {o \in [open_ok : BOOLEAN, extra_old : Races, extra_new : Races] :
          /\ ~o.open_ok => detected
          /\ o.extra_old # <<>> => drains /\ o.extra_old \in room(t.file)
          /\ o.extra_new # <<>> =>
                /\ ~t.paused
                /\ IF detected /\ o.open_ok
                   THEN Len(fs[path_id]) > 0 /\ o.extra_new \in room(path_id)
                   ELSE IF detected
                   THEN /\ falls_through /\ o.extra_old # <<>>
                        /\ Len(fs[t.file]) + Len(o.extra_old) + Len(o.extra_new) <= MaxFileLen
                   ELSE Len(fs[t.file]) > t.position /\ o.extra_new \in room(t.file)}

\* the body of  for tracker in &mut file_trackers  for the value r that
\* check_file_updates returned
AfterPoll(r) ==
    /\ trackers' = [trackers EXCEPT ![pc] = [r.t EXCEPT !.polled = <<>>]]
    /\ inodes' = r.fs
    /\ content_changed' = (content_changed \/ r.had_new \/ r.rotated)
    /\ ret' = [rotated |-> r.rotated, had_new |-> r.had_new, ev |-> r.ev,
               pushed |-> r.t.polled, printed |-> <<>>,
               position_before |-> trackers[pc].position]

Poll ==
    /\ mode = "panes"
    /\ pc \in 1..Len(trackers)
    /\ \E o \in PollOutcomes(trackers[pc], inodes, pathIno, FALSE) :
         AfterPoll(check_file_updates(trackers[pc], inodes, pathIno, filter, clock,
                                      o.open_ok, o.extra_old, o.extra_new))
    /\ pc' = IF pc = Len(trackers) THEN 0 ELSE pc + 1
    /\ UNCHANGED <<mode, pathIno, max_buffer_lines, filter, clock, nextTid>>
    /\ UNCHANGED <<fnvars, loopvars, terminal>>

\* the end of a loop iteration: thread::sleep, then the next iteration starts
NextIteration ==
    /\ clock < MaxClock
    /\ clock' = clock + 1
    /\ pc' = 1
    /\ content_changed' = FALSE
    /\ ret' = NoRet
    /\ rx' = <<>>
    /\ running' = running

\* no key is pending
NoKey ==
    /\ mode = "panes" /\ pc = 0
    /\ NextIteration
    /\ UNCHANGED <<mode, inodes, pathIno, trackers, max_buffer_lines, filter, nextTid>>
    /\ UNCHANGED <<fnvars, terminal>>

\* 'p' that pauses every window whatever the flags were
PauseAllAlwaysPauses ==
    /\ mode = "panes" /\ pc = 0
    /\ trackers' = [k \in 1..Len(trackers) |-> [trackers[k] EXCEPT !.paused = TRUE]]
    /\ NextIteration
    /\ UNCHANGED <<mode, inodes, pathIno, max_buffer_lines, filter, nextTid>>
    /\ UNCHANGED <<fnvars, terminal>>

\* 'p': pause/resume all windows
PauseAll ==
    /\ mode = "panes" /\ pc = 0
    /\ LET any_paused == \E k \in 1..Len(trackers) : trackers[k].paused
           new_state == ~any_paused
       IN trackers' = [k \in 1..Len(trackers) |-> [trackers[k] EXCEPT !.paused = new_state]]
    /\ NextIteration
    /\ UNCHANGED <<mode, inodes, pathIno, max_buffer_lines, filter, nextTid>>
    /\ UNCHANGED <<fnvars, terminal>>

\* 'P': pause/resume one window; idx = 0 stands for a dismissed selection
PauseOne ==
    /\ mode = "panes" /\ pc = 0
    /\ \E idx \in 0..Len(trackers) :
         trackers' = IF idx = 0 THEN trackers
                     ELSE [trackers EXCEPT ![idx].paused = ~trackers[idx].paused]
    /\ NextIteration
    /\ UNCHANGED <<mode, inodes, pathIno, max_buffer_lines, filter, nextTid>>
    /\ UNCHANGED <<fnvars, terminal>>

\* 'O': clear all buffers
ClearAll ==
    /\ mode = "panes" /\ pc = 0
    /\ trackers' = [k \in 1..Len(trackers) |-> clear_buffers(trackers[k])]
    /\ NextIteration
    /\ UNCHANGED <<mode, inodes, pathIno, max_buffer_lines, filter, nextTid>>
    /\ UNCHANGED <<fnvars, terminal>>

\* 'o': clear one buffer
ClearOne ==
    /\ mode = "panes" /\ pc = 0
    /\ \E idx \in 0..Len(trackers) :
         trackers' = IF idx = 0 THEN trackers
                     ELSE [trackers EXCEPT ![idx] = clear_buffers(trackers[idx])]
    /\ NextIteration
    /\ UNCHANGED <<mode, inodes, pathIno, max_buffer_lines, filter, nextTid>>
    /\ UNCHANGED <<fnvars, terminal>>

\* Vec::remove
Remove(s, idx) == SubSeq(s, 1, idx - 1) \o SubSeq(s, idx + 1, Len(s))

\* 'd' that removes the selected window even when it is the last one
DeleteWindowUnguarded ==
    /\ mode = "panes" /\ pc = 0
    /\ \E idx \in 0..Len(trackers) :
         trackers' = IF idx # 0 THEN Remove(trackers, idx) ELSE trackers
    /\ NextIteration
    /\ UNCHANGED <<mode, inodes, pathIno, max_buffer_lines, filter, nextTid>>
    /\ UNCHANGED <<fnvars, terminal>>

\* 'd': delete window
DeleteWindow ==
    /\ mode = "panes" /\ pc = 0
    /\ \E idx \in 0..Len(trackers) :
         trackers' = IF Len(trackers) > 1 /\ idx # 0 THEN Remove(trackers, idx) ELSE trackers
    /\ NextIteration
    /\ UNCHANGED <<mode, inodes, pathIno, max_buffer_lines, filter, nextTid>>
    /\ UNCHANGED <<fnvars, terminal>>

\* 'e': clear filter from window
ClearFilter ==
    /\ mode = "panes" /\ pc = 0
    /\ \E idx \in 0..Len(trackers) :
         trackers' = IF idx = 0 THEN trackers ELSE [trackers EXCEPT ![idx].filter = None]
    /\ NextIteration
    /\ UNCHANGED <<mode, inodes, pathIno, max_buffer_lines, filter, nextTid>>
    /\ UNCHANGED <<fnvars, terminal>>

\* what the user types at the include and exclude prompts; None: prompt dismissed
IncludeTexts == {None, Some(<<>>), Some(<<"x">>), Some(<<"(">>)}
ExcludeTexts == {None, Some(<<>>), Some(<<"(">>)}

\* whether LineFilter::new returns Err for the two answers (empty = none)
LineFilter_rejects(include_result, exclude_result) ==
    LineFilter_new(IF unwrap(include_result) = <<>> THEN None ELSE include_result,
                   IF unwrap(exclude_result) = <<>> THEN None ELSE exclude_result,
                   None) = None

\* the command with the window selection and the prompts answered as given
SetFilterWith(idx, include_result, exclude_result) ==
    /\ mode = "panes" /\ pc = 0
    /\ IF idx # 0 /\ is_some(include_result) /\ is_some(exclude_result)
       THEN IF LineFilter_rejects(include_result, exclude_result)
            THEN trackers' = trackers /\ ret' = [NoRet EXCEPT !.ev = "filter_rejected"]
            ELSE /\ trackers' =
                      [trackers EXCEPT ![idx].filter =
                          LineFilter_new(
                              IF unwrap(include_result) = <<>> THEN None ELSE include_result,
                              IF unwrap(exclude_result) = <<>> THEN None ELSE exclude_result,
                              None)]
                 /\ ret' = [NoRet EXCEPT !.ev = "filter_set"]
       ELSE trackers' = trackers /\ ret' = [NoRet EXCEPT !.ev = "filter_dismissed"]
    /\ clock < MaxClock
    /\ clock' = clock + 1
    /\ pc' = 1
    /\ content_changed' = FALSE
    /\ rx' = <<>>
    /\ UNCHANGED <<mode, inodes, pathIno, max_buffer_lines, filter, nextTid, running>>
    /\ UNCHANGED <<fnvars, terminal>>

\* 'f': set filter on window
SetFilter ==
    \E idx \in 0..Len(trackers), include_result \in IncludeTexts,
       exclude_result \in ExcludeTexts :
        SetFilterWith(idx, include_result, exclude_result)

\* the add-file command.  entered: a path was typed at the prompt; exists:
\* that path exists; open1, open2: whether the two File::open calls succeed
AddFileWith(entered, exists, open1, open2) ==
    /\ mode = "panes" /\ pc = 0
    /\ IF entered /\ exists /\ open1
       THEN IF open2
            THEN /\ Len(trackers) < MaxTrackers
                 /\ trackers' = Append(trackers,
                       new_pane_tracker(nextTid, pathIno, inodes[pathIno],
                                        max_buffer_lines, filter, clock))
                 /\ nextTid' = nextTid + 1
                 /\ mode' = mode
                 /\ NextIteration
            ELSE \* File::open(&path)? returns the error out of the loop
                 /\ mode' = "failed"
                 /\ UNCHANGED <<trackers, nextTid, pc, content_changed, clock, ret,
                                loopvars>>
       ELSE /\ UNCHANGED <<trackers, nextTid, mode>>
            /\ NextIteration
    /\ UNCHANGED <<inodes, pathIno, max_buffer_lines, filter>>
    /\ UNCHANGED <<fnvars, terminal>>

\* 'a': add new file; each way the command can go is taken once
AddFile ==
    \E entered \in BOOLEAN, exists \in BOOLEAN, open1 \in BOOLEAN, open2 \in BOOLEAN :
        /\ ~entered => exists /\ open1 /\ open2
        /\ ~exists => open1 /\ open2
        /\ ~open1 => open2
        /\ AddFileWith(entered, exists, open1, open2)

(***************************************************************************)
(* The scroll loop (follow_multiple_files_scroll).                         *)
(***************************************************************************)
AfterScrollPoll(r) ==
    /\ trackers' = [trackers EXCEPT ![pc] = r.t]
    /\ inodes' = r.fs
    /\ ret' = [rotated |-> r.rotated, had_new |-> r.had_new, ev |-> r.ev,
               pushed |-> <<>>, printed |-> r.printed,
               position_before |-> trackers[pc].position]

ScrollPoll ==
    /\ mode = "scroll"
    /\ pc \in 1..Len(trackers)
    /\ \E o \in PollOutcomes(trackers[pc], inodes, pathIno, TRUE) :
         AfterScrollPoll(scroll_poll(trackers[pc], inodes, pathIno, filter,
                                     o.open_ok, o.extra_old, o.extra_new))
    /\ pc' = IF pc = Len(trackers) THEN 0 ELSE pc + 1
    /\ UNCHANGED <<mode, pathIno, max_buffer_lines, filter, clock, nextTid, content_changed>>
    /\ UNCHANGED <<fnvars, loopvars, terminal>>

\* the flag is set to true before the loop and the interrupt handler stores false
loop_ignores_flag(flag) == TRUE

\* while running.load(Ordering::SeqCst)
loop_continues(flag) == flag

\* rx.try_recv() takes one event, thread::sleep if there was none; then the flag is
\* read at the top of the loop
ScrollSleep ==
    /\ mode = "scroll" /\ pc = 0
    /\ clock < MaxClock
    /\ clock' = clock + 1
    /\ rx' = IF rx = <<>> THEN rx ELSE Tail(rx)
    /\ content_changed' = FALSE
    /\ IF loop_continues(running)
       THEN pc' = 1 /\ mode' = mode /\ ret' = NoRet
       ELSE pc' = pc /\ mode' = "stopped" /\ ret' = ret
    /\ UNCHANGED <<inodes, pathIno, trackers, max_buffer_lines, filter, nextTid, running>>
    /\ UNCHANGED <<fnvars, terminal>>

Next ==
    \/ EnvAppend \/ EnvRotate \/ EnvTruncate
    \/ Poll \/ NoKey \/ PauseAll \/ PauseOne \/ ClearAll \/ ClearOne
    \/ ClearFilter \/ SetFilter
    \/ ScrollPoll \/ ScrollSleep

Spec == Init /\ [][Next]_vars

\* the pane session with the commands that change the tracker collection
NextPanes == Next \/ AddFile \/ DeleteWindow

SpecPanes == Init /\ [][NextPanes]_vars

(***************************************************************************)
(* Cancellation.  follow_file and follow_multiple_files_scroll install an  *)
(* interrupt handler that clears the flag running; the pane loop runs in   *)
(* raw mode, where Ctrl+C arrives as a key.                                *)
(***************************************************************************)
\* ctrlc handler: r.store(false, Ordering::SeqCst)
Interrupt ==
    /\ mode \in {"scroll", "single"}
    /\ running
    /\ running' = FALSE
    /\ UNCHANGED <<mode, inodes, pathIno, trackers, max_buffer_lines, filter, pc,
                   content_changed, clock, nextTid, ret, rx>>
    /\ UNCHANGED <<fnvars, terminal>>

\* one iteration of the loop of follow_file; rx.try_recv() is reached unless the
\* reopen failed
FollowPoll ==
    /\ mode = "single" /\ pc = 1
    /\ \E o \in PollOutcomes(trackers[1], inodes, pathIno, FALSE) :
         /\ AfterScrollPoll(follow_poll(trackers[1], inodes, pathIno, filter,
                                        o.open_ok, o.extra_old, o.extra_new))
         /\ rx' = IF rx = <<>> \/ (trackers[1].file_id # pathIno /\ ~o.open_ok)
                  THEN rx ELSE Tail(rx)
    /\ pc' = 0
    /\ UNCHANGED <<mode, pathIno, max_buffer_lines, filter, clock, nextTid,
                   content_changed, running>>
    /\ UNCHANGED <<fnvars, terminal>>

\* thread::sleep of the iteration; then the flag is read at the top of the loop
FollowSleep ==
    /\ mode = "single" /\ pc = 0
    /\ clock < MaxClock
    /\ clock' = clock + 1
    /\ IF loop_continues(running)
       THEN pc' = 1 /\ mode' = mode /\ ret' = NoRet
       ELSE pc' = pc /\ mode' = "stopped" /\ ret' = ret
    /\ UNCHANGED <<inodes, pathIno, trackers, max_buffer_lines, filter, nextTid,
                   content_changed, loopvars>>
    /\ UNCHANGED <<fnvars, terminal>>

\* 'q', Esc or Ctrl+C at the top level of the pane loop: break
Quit ==
    /\ mode = "panes" /\ pc = 0
    /\ mode' = "stopped"
    /\ ret' = NoRet
    /\ UNCHANGED <<inodes, pathIno, trackers, max_buffer_lines, filter, pc,
                   content_changed, clock, nextTid, loopvars>>
    /\ UNCHANGED <<fnvars, terminal>>

InitSingle ==
    /\ mode = "single"
    /\ \E c \in InitContents : inodes = <<c>>
    /\ pathIno = 1
    /\ max_buffer_lines = 0
    /\ filter = ExcludeX
    /\ trackers = <<new_follow_tracker(1, inodes[1])>>
    /\ pc = 1
    /\ content_changed = FALSE
    /\ clock = 0
    /\ nextTid = 2
    /\ ret = NoRet
    /\ rx = <<>>
    /\ running = TRUE
    /\ terminal = terminal_of(mode)
    /\ fn_pc = "idle" /\ fn_in = <<>> /\ fn_out = <<>>

InitCancel == Init \/ InitSingle

NextCancel ==
    \/ EnvAppend \/ EnvRotate \/ EnvTruncate \/ Interrupt
    \/ Poll \/ NoKey \/ Quit
    \/ ScrollPoll \/ ScrollSleep
    \/ FollowPoll \/ FollowSleep

SpecCancel == InitCancel /\ [][NextCancel]_vars

(***************************************************************************)
(* The pane loop left running: the clock stops counting at MaxClock but    *)
(* the loop goes on.  The watcher thread sends events into rx; the help    *)
(* and info popups, the menus, the prompts, the scrollback browser and the *)
(* single-pane view wait for a key in a loop of poll(100 ms) / read()      *)
(* (mode = "popup"); q, Esc and Ctrl+C leave the loop (mode = "stopped").  *)
(***************************************************************************)
MaxHints == 1
HintKinds == {"modify", "other"}

\* the watcher reports a change, or something else; a change may also go unreported
WatcherHint ==
    /\ mode = "panes" /\ pc = 1
    /\ Len(rx) < MaxHints
    /\ \E h \in HintKinds : rx' = Append(rx, h)
    /\ UNCHANGED <<mode, inodes, pathIno, trackers, max_buffer_lines, filter, pc,
                   content_changed, clock, nextTid, ret, running>>
    /\ UNCHANGED <<fnvars, terminal>>

\* thread::sleep, then the next iteration drains rx and starts polling
SleepAndLoop ==
    /\ clock' = Min(clock + 1, MaxClock)
    /\ pc' = 1
    /\ content_changed' = FALSE
    /\ ret' = NoRet
    /\ rx' = <<>>
    /\ running' = running

\* no key is pending
Tick ==
    /\ mode = "panes" /\ pc = 0
    /\ SleepAndLoop
    /\ UNCHANGED <<mode, inodes, pathIno, trackers, max_buffer_lines, filter, nextTid>>
    /\ UNCHANGED <<fnvars, terminal>>

\* 'h', 'i', a digit, or a command that opens a menu or a prompt
OpenPopup ==
    /\ mode = "panes" /\ pc = 0
    /\ mode' = "popup"
    /\ ret' = NoRet
    /\ UNCHANGED <<inodes, pathIno, trackers, max_buffer_lines, filter, pc,
                   content_changed, clock, nextTid, loopvars>>
    /\ UNCHANGED <<fnvars, terminal>>

\* poll(100 ms) of the popup's loop found no key
PopupTimeout ==
    /\ mode = "popup"
    /\ clock' = Min(clock + 1, MaxClock)
    /\ UNCHANGED <<mode, inodes, pathIno, trackers, max_buffer_lines, filter, pc,
                   content_changed, nextTid, ret, loopvars>>
    /\ UNCHANGED <<fnvars, terminal>>

\* a key closes the popup; the frame is rendered and the iteration ends
PopupKey ==
    /\ mode = "popup"
    /\ mode' = "panes"
    /\ SleepAndLoop
    /\ UNCHANGED <<inodes, pathIno, trackers, max_buffer_lines, filter, nextTid>>
    /\ UNCHANGED <<fnvars, terminal>>

InitPaneLoop == Init /\ mode = "panes"

NextPaneLoop ==
    \/ EnvAppend \/ EnvRotate \/ EnvTruncate \/ WatcherHint
    \/ Poll \/ Tick \/ PauseAll
    \/ OpenPopup \/ PopupTimeout \/ PopupKey \/ Quit

\* WF_vars(Poll), with ENABLED <<Poll>>_vars written as the guard of Poll: the
\* poll of trackers[pc] can always be taken and changes pc
PollFairness ==
    []<>(~(mode = "panes" /\ pc \in 1..Len(trackers))) \/ []<><<Poll>>_vars

\* the loop is a running thread: a poll or the end of an iteration that can be
\* taken is taken; nothing obliges the user to press a key or the watcher to report
SpecPaneLoop ==
    InitPaneLoop /\ [][NextPaneLoop]_vars /\ PollFairness /\ WF_vars(Tick)

\* the pane loop with the add-file command
NextAddFile == EnvAppend \/ EnvRotate \/ EnvTruncate \/ Poll \/ NoKey \/ AddFile

SpecAddFile == InitPaneLoop /\ [][NextAddFile]_vars

\* str::trim: whitespace removed at both ends
RECURSIVE trim_start(_)
trim_start(s) == IF s # <<>> /\ is_whitespace(s[1]) THEN trim_start(Tail(s)) ELSE s
trim(s) == trim_start(trim_end(s))

\* what the user types at the search prompt; None: prompt dismissed
SearchTexts == {None, Some(<<>>), Some(<<" ">>), Some(<<" ", "a">>), Some(<<"x">>)}

\* if term.trim().is_empty() { None } else { Some(term.trim().to_string()) }
search_of(term) == IF trim(term) = <<>> THEN None ELSE Some(trim(term))

\* '/': search, with the prompt answered as given
SearchWith(result) ==
    /\ mode = "panes" /\ pc = 0
    /\ IF is_some(result)
       THEN /\ trackers' = [k \in 1..Len(trackers) |->
                               [trackers[k] EXCEPT !.search_term = search_of(unwrap(result))]]
            /\ ret' = [NoRet EXCEPT !.ev = "search_submitted"]
       ELSE /\ trackers' = trackers
            /\ ret' = [NoRet EXCEPT !.ev = "search_dismissed"]
    /\ clock < MaxClock
    /\ clock' = clock + 1
    /\ pc' = 1
    /\ content_changed' = FALSE
    /\ rx' = <<>>
    /\ UNCHANGED <<mode, inodes, pathIno, max_buffer_lines, filter, nextTid, running>>
    /\ UNCHANGED <<fnvars, terminal>>

Search == \E result \in SearchTexts : SearchWith(result)

(***************************************************************************)
(* The window menu.  'P', 'o', 'd' and 'e' build the window names from the  *)
(* trackers and call popup_select_window, whose loop keeps the local        *)
(* selected until Enter or a dismissing key (mode = "menu": fn_in holds the *)
(* command and the names, fn_out the local selected).  A digit key opens    *)
(* the single-pane view of one tracker (mode = "single_pane").  An index    *)
(* out of range panics (mode = "panicked").                                 *)
(***************************************************************************)
MenuCommands == {"P", "o", "d", "e"}
MenuKeys == {"Up", "Down", "Home", "End"}
DigitKeys == 0..9

\* one label per tracker, in the order of the collection
get_window_names(ts) ==
    [k \in 1..Len(ts) |-> [index |-> k - 1, paused |-> ts[k].paused,
                            filtered |-> is_some(ts[k].filter)]]

\* the end of an iteration in which the command left the note ev
EndIteration(ev) ==
    /\ clock < MaxClock
    /\ clock' = clock + 1
    /\ pc' = 1
    /\ content_changed' = FALSE
    /\ ret' = [NoRet EXCEPT !.ev = ev]
    /\ rx' = <<>>
    /\ running' = running

\* the command key: 'd' opens the menu only when more than one window is left;
\* popup_menu returns Dismissed at once when there are no items
OpenMenu ==
    /\ mode = "panes" /\ pc = 0
    /\ \E cmd \in MenuCommands :
         IF (cmd = "d" /\ ~(Len(trackers) > 1)) \/ get_window_names(trackers) = <<>>
         THEN /\ EndIteration("menu_not_opened")
              /\ UNCHANGED <<mode, fnvars>>
         ELSE /\ mode' = "menu"
              /\ fn_pc' = "menu"
              /\ fn_in' = [cmd |-> cmd, items |-> get_window_names(trackers)]
              /\ fn_out' = 0
              /\ UNCHANGED <<pc, content_changed, clock, ret, loopvars>>
    /\ UNCHANGED <<inodes, pathIno, trackers, max_buffer_lines, filter, nextTid, terminal>>

\* Down that moves past the last item
menu_key_down_unbounded(selected, n, key) ==
    IF key = "Up" THEN (IF selected > 0 THEN selected - 1 ELSE selected)
    ELSE IF key = "Down" THEN selected + 1
    ELSE IF key = "Home" THEN 0
    ELSE n - 1

\* the arms Up, Down, Home and End of popup_menu for n items
menu_key(selected, n, key) ==
    IF key = "Up" THEN (IF selected > 0 THEN selected - 1 ELSE selected)
    ELSE IF key = "Down" THEN (IF selected < n - 1 THEN selected + 1 ELSE selected)
    ELSE IF key = "Home" THEN 0
    ELSE n - 1

MenuKey ==
    /\ mode = "menu"
    /\ \E key \in MenuKeys : fn_out' = menu_key(fn_out, Len(fn_in.items), key)
    /\ UNCHANGED <<svars, fn_pc, fn_in>>

\* what the handler of cmd does with Selected(idx); idx counts from 0
apply_selected(ts, cmd, idx) ==
    IF cmd = "P" THEN [ts EXCEPT ![idx + 1].paused = ~ts[idx + 1].paused]
    ELSE IF cmd = "o" THEN [ts EXCEPT ![idx + 1] = clear_buffers(ts[idx + 1])]
    ELSE IF cmd = "d" THEN Remove(ts, idx + 1)
    ELSE [ts EXCEPT ![idx + 1].filter = None]

\* Enter: popup_menu returns Selected(selected) and the handler indexes
\* file_trackers with it, then renders
MenuEnter ==
    /\ mode = "menu"
    /\ IF fn_out + 1 \in 1..Len(trackers)
       THEN /\ trackers' = apply_selected(trackers, fn_in.cmd, fn_out)
            /\ mode' = "panes"
            /\ EndIteration("selected")
       ELSE /\ mode' = "panicked"
            /\ UNCHANGED <<trackers, pc, content_changed, clock, ret, loopvars>>
    /\ fn_pc' = "idle"
    /\ UNCHANGED <<inodes, pathIno, max_buffer_lines, filter, nextTid, terminal,
                   fn_in, fn_out>>

\* Esc, q or Ctrl+C: popup_menu returns Dismissed
MenuDismiss ==
    /\ mode = "menu"
    /\ mode' = "panes"
    /\ EndIteration("dismissed")
    /\ fn_pc' = "idle"
    /\ UNCHANGED <<inodes, pathIno, trackers, max_buffer_lines, filter, nextTid, terminal,
                   fn_in, fn_out>>

\* a digit key: file_num > 0 && file_num <= file_trackers.len() opens the
\* single-pane view of file_trackers[file_num - 1]; any other digit does nothing
DigitKey ==
    /\ mode = "panes" /\ pc = 0
    /\ \E file_num \in DigitKeys :
         /\ fn_in' = [cmd |-> "digit", file_num |-> file_num]
         /\ IF file_num > 0 /\ file_num <= Len(trackers)
            THEN /\ mode' = "single_pane"
                 /\ fn_out' = file_num - 1
                 /\ UNCHANGED <<pc, content_changed, clock, ret, loopvars>>
            ELSE /\ EndIteration("digit_ignored")
                 /\ UNCHANGED <<mode, fn_out>>
    /\ UNCHANGED <<inodes, pathIno, trackers, max_buffer_lines, filter, nextTid, terminal,
                   fn_pc>>

\* any key closes the single-pane view; the frame is rendered
SinglePaneKey ==
    /\ mode = "single_pane"
    /\ mode' = "panes"
    /\ EndIteration("view_closed")
    /\ UNCHANGED <<inodes, pathIno, trackers, max_buffer_lines, filter, nextTid, terminal,
                   fnvars>>

NextMenu ==
    \/ EnvAppend \/ Poll \/ NoKey \/ AddFile
    \/ OpenMenu \/ MenuKey \/ MenuEnter \/ MenuDismiss
    \/ DigitKey \/ SinglePaneKey

SpecMenu == InitPaneLoop /\ [][NextMenu]_vars

\* the pane session with the commands that act on the tracker collection
NextCommands ==
    \/ EnvAppend \/ Poll \/ NoKey
    \/ PauseAll \/ PauseOne \/ AddFile \/ DeleteWindow \/ Search

SpecCommands == InitPaneLoop /\ [][NextCommands]_vars

(***************************************************************************)
(* The start and the end of a follow session.  process_files calls         *)
(* follow_file for one file (mode = "single_setup") and                    *)
(* follow_multiple_files otherwise (mode = "setup"); the loop functions    *)
(* open the files, create the watcher and register the paths before they   *)
(* enter their loop, each step with the ? operator.                        *)
(***************************************************************************)
InitSetup ==
    /\ mode \in {"setup", "single_setup"}
    /\ \E c \in InitContents : inodes = <<c>>
    /\ pathIno = 1
    /\ max_buffer_lines \in 0..MaxCap
    /\ filter = ExcludeX
    /\ trackers = <<>>
    /\ pc = 0
    /\ content_changed = FALSE
    /\ clock = 0
    /\ nextTid = 1
    /\ ret = NoRet
    /\ rx = <<>>
    /\ running = TRUE
    /\ terminal = PlainTerminal
    /\ fn_pc = "idle" /\ fn_in = <<>> /\ fn_out = <<>>

\* enable_raw_mode and EnterAlternateScreen succeed or fail
EnterTerminal ==
    /\ mode = "setup"
    /\ \E raw_ok \in BOOLEAN, alt_ok \in BOOLEAN :
         /\ ~raw_ok => alt_ok
         /\ terminal' = choose_loop(terminal, raw_ok, alt_ok).term
         /\ mode' = choose_loop(terminal, raw_ok, alt_ok).mode
    /\ UNCHANGED <<inodes, pathIno, trackers, max_buffer_lines, filter, pc,
                   content_changed, clock, nextTid, ret, loopvars>>
    /\ UNCHANGED fnvars

\* the first step of the setup of a loop function that returns an error, or "none":
\* follow_file creates the watcher before it opens the file, the other two after
start_error(setup, open_ok, new_ok, watch_ok) ==
    IF setup = "single_setup"
    THEN IF ~new_ok THEN "watcher_failed" ELSE IF ~watch_ok THEN "watch_failed"
         ELSE IF ~open_ok THEN "open_failed" ELSE "none"
    ELSE IF ~open_ok THEN "open_failed" ELSE IF ~new_ok THEN "watcher_failed"
         ELSE IF ~watch_ok THEN "watch_failed" ELSE "none"

\* the trackers a loop function has when it enters its loop
start_trackers(setup, bytes, cap, global, now) ==
    IF setup = "panes_setup"
    THEN [k \in 1..Len(Files) |-> new_pane_tracker(k, 1, bytes, cap, global, now)]
    ELSE IF setup = "scroll_setup"
    THEN [k \in 1..Len(Files) |-> new_scroll_tracker(k, 1, bytes, global, now)]
    ELSE <<new_follow_tracker(1, bytes)>>

\* a loop function from its first line to the top of its loop
StartWith(open_ok, new_ok, watch_ok) ==
    /\ mode \in {"panes_setup", "scroll_setup", "single_setup"}
    /\ IF start_error(mode, open_ok, new_ok, watch_ok) = "none"
       THEN /\ mode' = (IF mode = "panes_setup" THEN "panes"
                        ELSE IF mode = "scroll_setup" THEN "scroll" ELSE "single")
            /\ trackers' = start_trackers(mode, inodes[pathIno], max_buffer_lines, filter, clock)
            /\ nextTid' = Len(Files) + 1
            /\ pc' = 1
            /\ ret' = NoRet
       ELSE /\ mode' = "failed"
            /\ ret' = [NoRet EXCEPT !.ev = start_error(mode, open_ok, new_ok, watch_ok)]
            /\ UNCHANGED <<trackers, nextTid, pc>>
    /\ UNCHANGED <<inodes, pathIno, max_buffer_lines, filter, content_changed, clock,
                   loopvars, terminal>>
    /\ UNCHANGED fnvars

\* each step of the setup fails alone, or none does
Start ==
    \E open_ok \in BOOLEAN, new_ok \in BOOLEAN, watch_ok \in BOOLEAN :
        /\ ~open_ok => new_ok /\ watch_ok
        /\ ~new_ok => watch_ok
        /\ StartWith(open_ok, new_ok, watch_ok)

\* the loop function has returned (Ok after a quit or an interrupt, Err otherwise);
\* follow_multiple_files restores the terminal after the pane loop and returns
Return ==
    /\ mode \in {"stopped", "failed"}
    /\ terminal' = IF terminal.alt THEN restore_terminal(terminal, mode = "stopped")
                   ELSE terminal
    /\ mode' = IF mode = "stopped" THEN "returned_ok" ELSE "returned_err"
    /\ UNCHANGED <<inodes, pathIno, trackers, max_buffer_lines, filter, pc,
                   content_changed, clock, nextTid, ret, loopvars>>
    /\ UNCHANGED fnvars

NextSetup ==
    \/ EnterTerminal \/ Start \/ Return
    \/ EnvAppend \/ EnvRotate \/ EnvTruncate \/ Interrupt
    \/ Poll \/ NoKey \/ Quit \/ AddFile
    \/ ScrollPoll \/ ScrollSleep
    \/ FollowPoll \/ FollowSleep

SpecSetup == InitSetup /\ [][NextSetup]_vars

(***************************************************************************)
(* Partial writes: a writer that has written the beginning of a line and   *)
(* not yet its terminator.                                                 *)
(***************************************************************************)
PartialChunks == {<<"m">>}

\* a writer appends bytes that do not end a line
EnvAppendPartial ==
    /\ Running
    /\ \E chunk \in PartialChunks :
         /\ Len(inodes[pathIno]) + Len(chunk) <= MaxFileLen
         /\ inodes' = [inodes EXCEPT ![pathIno] = @ \o chunk]
    /\ ret' = NoRet
    /\ UNCHANGED <<mode, pathIno, trackers, max_buffer_lines, filter, pc,
                   content_changed, clock, nextTid>>
    /\ UNCHANGED <<fnvars, loopvars, terminal>>

\* a poll of a file that has grown, during which the writer appends such bytes
\* between current_size = metadata()?.len() and the read_line loop
PollPartialRace ==
    /\ mode = "panes"
    /\ pc \in 1..Len(trackers)
    /\ ~trackers[pc].paused
    /\ trackers[pc].file_id = pathIno
    /\ Len(inodes[pathIno]) > trackers[pc].position
    /\ \E chunk \in PartialChunks :
         /\ Len(inodes[pathIno]) + Len(chunk) <= MaxFileLen
         /\ AfterPoll(check_file_updates(trackers[pc], inodes, pathIno, filter, clock,
                                         TRUE, <<>>, chunk))
    /\ pc' = IF pc = Len(trackers) THEN 0 ELSE pc + 1
    /\ UNCHANGED <<mode, pathIno, max_buffer_lines, filter, clock, nextTid>>
    /\ UNCHANGED <<fnvars, loopvars, terminal>>

NextPartial == EnvAppend \/ EnvAppendPartial \/ Poll \/ PollPartialRace \/ NoKey

SpecPartial == InitPaneLoop /\ [][NextPartial]_vars

(***************************************************************************)
(* Text operations checked on their own: a call draws its arguments from   *)
(* bounded sets (fn_pc = "input") and returns (fn_pc = "done").  The       *)
(* session does not run in these specifications.                           *)
(***************************************************************************)
NoSession ==
    /\ mode = "none" /\ inodes = <<>> /\ pathIno = 0 /\ trackers = <<>>
    /\ max_buffer_lines = 0 /\ filter = ShowAll /\ pc = 0 /\ content_changed = FALSE
    /\ clock = 0 /\ nextTid = 0 /\ ret = NoRet /\ rx = <<>> /\ running = TRUE
    /\ terminal = PlainTerminal

\* all strings over a set of characters, up to a length
RECURSIVE StringsUpTo(_, _)
StringsUpTo(chars, n) ==
    IF n = 0 THEN {<<>>}
    ELSE LET shorter == StringsUpTo(chars, n - 1)
         IN shorter \cup {Append(str, ch) : str \in shorter, ch \in chars}

\* the visible characters of a string: those that are neither part of an escape
\* sequence (ESC up to and including the first ASCII letter) nor control characters
InEscapeAfter(str, i) ==
    \E j \in 1..i : str[j] = ESC /\ \A k \in (j + 1)..i : ~is_ascii_alphabetic(str[k])

IsVisibleAt(str, i) == ~is_control(str[i]) /\ ~InEscapeAfter(str, i - 1)

Visible(str) ==
    LET marked == [i \in 1..Len(str) |-> <<str[i], IsVisibleAt(str, i)>>]
        kept == SelectSeq(marked, LAMBDA p : p[2])
    IN [i \in 1..Len(kept) |-> kept[i][1]]

MaxPadLen == 4
MaxPadWidth == 5
PadChars == {ESC, "[", "m", "a", TAB, BEL}

InitPad ==
    /\ NoSession
    /\ fn_pc = "input"
    /\ fn_in \in [s : StringsUpTo(PadChars, MaxPadLen), w : 0..MaxPadWidth]
    /\ fn_out = <<>>

CallPad ==
    /\ fn_pc = "input"
    /\ fn_out' = pad_ansi(fn_in.s, fn_in.w)
    /\ fn_pc' = "done"
    /\ UNCHANGED <<fn_in, svars>>

SpecPad == InitPad /\ [][CallPad]_vars

MaxHlLen == 3
HlChars == {"e", "r", TAB, Wide}
\* RegexBuilder::new(&regex::escape(term)).case_insensitive(true), term in lower case
search_regex(term) == [i \in 1..Len(term) |-> {term[i], to_uppercase(term[i])}]
HlPatterns == {search_regex(<<"r">>), search_regex(<<"e", "r">>)}
HlTheme ==
    [line_rules |-> <<>>,
     word_rules |-> <<[pattern |-> Lit(<<"e">>), color |-> <<1>>]>>,
     base_color |-> Some(4)]

InitHighlight ==
    /\ NoSession
    /\ fn_pc = "input"
    /\ fn_in \in [raw : StringsUpTo(HlChars, MaxHlLen), re : HlPatterns]
    /\ fn_out = <<>>

\* write_pane: highlight_search_matches(line, raw_line, re) on a buffered pair
CallHighlight ==
    /\ fn_pc = "input"
    /\ fn_out' = highlight_search_matches(colorize_line(HlTheme, FALSE, fn_in.raw),
                                          fn_in.raw, fn_in.re)
    /\ fn_pc' = "done"
    /\ UNCHANGED <<fn_in, svars>>

SpecHighlight == InitHighlight /\ [][CallHighlight]_vars

MaxColorLen == 2
ColorChars == {"e", "r", "3"}
RuleE == [pattern |-> Lit(<<"e">>), color |-> <<1>>]
RuleDigit == [pattern |-> <<Digits>>, color |-> <<2>>]
RuleR == [pattern |-> Lit(<<"r">>), color |-> <<3>>]
RuleLineE == [pattern |-> Lit(<<"e">>), color |-> <<5>>]
ColorThemes ==
    [line_rules : {<<>>, <<RuleR>>, <<RuleR, RuleLineE>>, <<RuleLineE, RuleR>>},
     word_rules : {<<>>, <<RuleE>>, <<RuleE, RuleDigit>>, <<RuleDigit, RuleE>>,
                   <<RuleE, RuleLineE>>},
     base_color : {None, Some(4)}]

InitColor ==
    /\ NoSession
    /\ fn_pc = "input"
    /\ fn_in \in [theme : ColorThemes, line : StringsUpTo(ColorChars, MaxColorLen)]
    /\ fn_out = <<>>

CallColorize ==
    /\ fn_pc = "input"
    /\ fn_out' = colorize_line(fn_in.theme, FALSE, fn_in.line)
    /\ fn_pc' = "done"
    /\ UNCHANGED <<fn_in, svars>>

SpecColor == InitColor /\ [][CallColorize]_vars

MaxLevelWords == 2
LevelWords ==
    {<<"e","m","e","r","g">>, <<"a","l","e","r","t">>, <<"c","r","i","t">>,
     <<"s","t","d","e","r","r">>, <<"E","r","r","o","r">>, <<"W","A","R","N","I","N","G">>,
     <<"n","o","t","i","c","e">>, <<"i","n","f","o">>, <<"d","e","b","u","g">>,
     <<"t","r","a","c","e">>, <<"o","k">>}

\* lines of up to n words, each word followed by a space
RECURSIVE LevelLines(_)
LevelLines(n) ==
    IF n = 0 THEN {<<>>}
    ELSE LET shorter == LevelLines(n - 1)
         IN shorter \cup {(l \o w) \o <<" ">> : l \in shorter, w \in LevelWords}

\* a filter with a level threshold only (LogLevel as its priority, 0 = Emergency)
LevelOnly(target_level) ==
    [include_regex |-> None, exclude_regex |-> None, level_filter |-> Some(target_level)]

InitLevel ==
    /\ NoSession
    /\ fn_pc = "input"
    /\ fn_in \in [line : LevelLines(MaxLevelWords), target_level : 0..7]
    /\ fn_out = FALSE

CallShouldShow ==
    /\ fn_pc = "input"
    /\ fn_out' = should_show_line(LevelOnly(fn_in.target_level), fn_in.line)
    /\ fn_pc' = "done"
    /\ UNCHANGED <<fn_in, svars>>

SpecLevel == InitLevel /\ [][CallShouldShow]_vars

MaxLineBytes == 3
LineChars == {"a", " ", TAB, CR, NL}

InitLines ==
    /\ NoSession
    /\ fn_pc = "input"
    /\ fn_in \in [bytes : StringsUpTo(LineChars, MaxLineBytes)]
    /\ fn_out = <<>>

\* the lines of the same bytes as a poll obtains them (read_line, trim_end) and as
\* the initial load of a pane tracker obtains them (get_last_n_lines)
CallReadLines ==
    /\ fn_pc = "input"
    /\ fn_out' = [poll |-> clean_lines(fn_in.bytes),
                  load |-> get_last_n_lines(fn_in.bytes, PaneInitialLines)]
    /\ fn_pc' = "done"
    /\ UNCHANGED <<fn_in, svars>>

SpecLines == InitLines /\ [][CallReadLines]_vars

MaxFilterLine == 3
FilterChars == {"e", "r", "a"}

\* filters with and without an include pattern (e), an exclude pattern (r) and a
\* severity threshold (Error = 3, Info = 6)
FilterChoices ==
    [include_regex : {None, Some(Lit(<<"e">>))},
     exclude_regex : {None, Some(Lit(<<"r">>))},
     level_filter : {None, Some(3), Some(6)}]

InitFilter ==
    /\ NoSession
    /\ fn_pc = "input"
    /\ fn_in \in [f : FilterChoices, line : StringsUpTo(FilterChars, MaxFilterLine)]
    /\ fn_out = FALSE

CallFilter ==
    /\ fn_pc = "input"
    /\ fn_out' = should_show_line(fn_in.f, fn_in.line)
    /\ fn_pc' = "done"
    /\ UNCHANGED <<fn_in, svars>>

SpecFilter == InitFilter /\ [][CallFilter]_vars

(***************************************************************************)
(* Pane rendering (render_frame, write_pane of src/src/tail.rs).  A frame  *)
(* is a sequence of terminal commands queued into one byte buffer; what    *)
(* reaches the terminal is the sequence of buffers handed to stdout.       *)
(* size() is None when the terminal size cannot be read, else              *)
(* Some(<<cols, rows>>).                                                   *)
(***************************************************************************)
MaxPanes == 3
MaxRows == 7
StatusBarBgDefault == 103
StatusBarFgDefault == 231

Cmd(name, arg) == [cmd |-> name, arg |-> arg]

\* chrono's "%b %d %H:%M:%S %Y" rendering of the wall clock
TimeStr ==
    <<"N","o","v"," ","0","5"," ","1","2",":","0","0",":","0","0"," ","2","0","2","6">>

\* the text printed on content row i (0-based) of a pane of content_h content rows
content_text(t, i, content_h, w) ==
    LET start == SatSub(Len(t.lines), content_h)
        raw_start == SatSub(Len(t.raw_lines), content_h)
    IN IF i >= Len(t.lines) - start THEN Spaces(w)
       ELSE IF /\ is_some(t.search_term)
               /\ raw_start + i + 1 <= Len(t.raw_lines)
               /\ is_match(search_regex(unwrap(t.search_term)), t.raw_lines[raw_start + i + 1])
            THEN pad_ansi(highlight_search_matches(t.lines[start + i + 1],
                                                   t.raw_lines[raw_start + i + 1],
                                                   search_regex(unwrap(t.search_term))), w)
            ELSE pad_ansi(t.lines[start + i + 1], w)

indicators(t) ==
    (IF t.paused THEN <<" ","[","P","A","U","S","E","D","]">> ELSE <<>>)
    \o (IF is_some(t.filter) THEN <<" ","[","F","I","L","T","E","R","]">> ELSE <<>>)
    \o (IF is_some(t.search_term) THEN <<" ","[","S","E","A","R","C","H","]">> ELSE <<>>)

\* String::len: the length in bytes
str_len(s) == ByteOffset(s, Len(s) + 1)

\* String::truncate(new_len) for new_len on a character boundary, which is where
\* it falls for the paths and widths drawn below (elsewhere truncate panics)
truncate(s, new_len) ==
    SubSeq(s, 1, Cardinality({i \in 1..Len(s) : ByteOffset(s, i + 1) <= new_len}))

\* if bar.len() > w { bar.truncate(w); }  while bar.len() < w { bar.push(' ') }
bar_fit(bar, w) ==
    IF str_len(bar) > w THEN truncate(bar, w) ELSE bar \o Spaces(w - str_len(bar))

\* left, gap = w.saturating_sub(left.len() + right.len()) spaces, right, then
\* cut or filled to w bytes
bar_text(left, right, w) ==
    bar_fit((left \o Spaces(SatSub(w, str_len(left) + str_len(right)))) \o right, w)

status_bar(t, index, w) ==
    bar_text(((Decimal(index) \o <<"]", " ">>) \o t.path) \o indicators(t),
             (Decimal(t.line_count) \o <<" ", "-", " ">>) \o TimeStr, w)

write_pane(t, index, y, width, height) ==
    [k \in 1..(2 * SatSub(height, 1)) |->
        IF k % 2 = 1 THEN Cmd("MoveTo", <<0, y + ((k - 1) \div 2)>>)
        ELSE Cmd("Print", content_text(t, (k - 2) \div 2, SatSub(height, 1), width))]
    \o <<Cmd("MoveTo", <<0, (y + height) - 1>>),
         Cmd("SetBackgroundColor", <<StatusBarBgDefault>>),
         Cmd("SetForegroundColor", <<StatusBarFgDefault>>),
         Cmd("Print", status_bar(t, index, width)),
         Cmd("ResetColor", <<>>)>>

\* the first pane takes the remainder rows
pane_height_first_takes_extra(i, num_files, th) ==
    IF i = 0 THEN (th \div num_files) + (th % num_files) ELSE th \div num_files

\* height of pane i (0-based)
pane_height(i, num_files, th) ==
    IF i = num_files - 1 THEN (th \div num_files) + (th % num_files) ELSE th \div num_files

\* the for loop of render_frame from pane i (0-based) at row y
RECURSIVE write_panes(_, _, _, _, _)
write_panes(ts, i, y, tw, th) ==
    IF i >= Len(ts) THEN <<>>
    ELSE write_pane(ts[i + 1], i, y, tw, pane_height(i, Len(ts), th))
         \o write_panes(ts, i + 1, y + pane_height(i, Len(ts), th), tw, th)

\* every pane is handed to stdout on its own, without the markers
compose_frame_pane_by_pane(ts, tw, th) ==
    IF th < Len(ts) * 2 \/ tw < 10 THEN [written |-> <<>>, result |-> "Ok"]
    ELSE [written |-> [k \in 1..Len(ts) |->
                          write_pane(ts[k], k - 1, (k - 1) * (th \div Len(ts)), tw,
                                     pane_height(k - 1, Len(ts), th))],
          result |-> "Ok"]

\* render_frame once size() has answered
compose_frame(ts, tw, th) ==
    IF th < Len(ts) * 2 \/ tw < 10 THEN [written |-> <<>>, result |-> "Ok"]
    ELSE [written |-> <<(<<Cmd("BeginSynchronizedUpdate", <<>>)>>
                         \o write_panes(ts, 0, 0, tw, th))
                        \o <<Cmd("EndSynchronizedUpdate", <<>>)>>>>,
          result |-> "Ok"]

render_frame(ts, sz) ==
    IF sz = None THEN [written |-> <<>>, result |-> "Err"]
    ELSE compose_frame(ts, unwrap(sz)[1], unwrap(sz)[2])

RenderTrackers ==
    {[path |-> <<"p">>, lines |-> <<>>, raw_lines |-> <<>>, search_term |-> None,
      paused |-> FALSE, filter |-> None, line_count |-> 0],
     [path |-> <<"q">>, lines |-> <<<<"e">>, <<ESC, "[", "3", "1", "m", "e", "r", ESC, "[", "0", "m">>>>,
      raw_lines |-> <<<<"e">>, <<"e", "r">>>>, search_term |-> Some(<<"r">>),
      paused |-> TRUE, filter |-> Some(ShowAll), line_count |-> 2],
     [path |-> <<"l", "o", "g">>, lines |-> <<<<"a">>, <<"e">>, <<"r">>, <<"a">>>>,
      raw_lines |-> <<<<"a">>, <<"e">>, <<"r">>, <<"a">>>>, search_term |-> None,
      paused |-> FALSE, filter |-> None, line_count |-> 12],
     [path |-> <<Wide>>, lines |-> <<<<"a">>>>, raw_lines |-> <<<<"a">>>>,
      search_term |-> None, paused |-> FALSE, filter |-> None, line_count |-> 1]}
TermCols == {9, 10, 40}
TermSizes == {None} \cup {Some(<<tw, th>>) : tw \in TermCols, th \in 0..MaxRows}

InitRender ==
    /\ NoSession
    /\ fn_pc = "input"
    /\ fn_in \in [trackers : UNION {[1..n -> RenderTrackers] : n \in 1..MaxPanes},
                  size : TermSizes]
    /\ fn_out = <<>>

CallRenderFrame ==
    /\ fn_pc = "input"
    /\ fn_out' = render_frame(fn_in.trackers, fn_in.size)
    /\ fn_pc' = "done"
    /\ UNCHANGED <<fn_in, svars>>

SpecRender == InitRender /\ [][CallRenderFrame]_vars

(***************************************************************************)
(* The scrollback browser (show_scrollback) of one tracker on a terminal   *)
(* of th rows: fn_in holds th, fn_out the locals total_lines, content_h    *)
(* and scroll_offset.  Terminals of fewer than 2 rows, where th - 2        *)
(* overflows, are left out.                                                *)
(***************************************************************************)
MaxScrollLines == 6
MaxScrollRows == 4
ScrollbackKeys == {"Up", "Down", "PageUp", "PageDown", "Home", "End"}

\* Down that scrolls whatever the offset is
scrollback_key_down_unguarded(scroll_offset, total_lines, content_h, key) ==
    IF key = "Up" THEN SatSub(scroll_offset, 1)
    ELSE IF key = "Down" THEN scroll_offset + 1
    ELSE IF key = "PageUp" THEN SatSub(scroll_offset, content_h)
    ELSE IF key = "PageDown"
    THEN Min(scroll_offset + content_h, SatSub(total_lines, content_h))
    ELSE IF key = "Home" THEN 0
    ELSE SatSub(total_lines, content_h)

\* the arms of the match on key.code that assign scroll_offset
scrollback_key(scroll_offset, total_lines, content_h, key) ==
    IF key = "Up" THEN SatSub(scroll_offset, 1)
    ELSE IF key = "Down"
    THEN (IF scroll_offset + content_h < total_lines THEN scroll_offset + 1
          ELSE scroll_offset)
    ELSE IF key = "PageUp" THEN SatSub(scroll_offset, content_h)
    ELSE IF key = "PageDown"
    THEN Min(scroll_offset + content_h, SatSub(total_lines, content_h))
    ELSE IF key = "Home" THEN 0
    ELSE SatSub(total_lines, content_h)

\* the pane view with 'b' pressed and a window selected: a tracker loaded with
\* 0 to MaxScrollLines lines
InitScrollback ==
    /\ mode = "panes"
    /\ \E n \in 0..MaxScrollLines : inodes = <<[i \in 1..(2 * n) |-> IF i % 2 = 1 THEN "a" ELSE NL]>>
    /\ pathIno = 1
    /\ max_buffer_lines = MaxScrollLines
    /\ filter = ShowAll
    /\ trackers = <<new_pane_tracker(1, 1, inodes[1], max_buffer_lines, filter, 0)>>
    /\ pc = 0 /\ content_changed = FALSE /\ clock = 0 /\ nextTid = 2
    /\ ret = NoRet /\ rx = <<>> /\ running = TRUE
    /\ terminal = terminal_of(mode)
    /\ fn_pc = "input"
    /\ fn_in \in [th : 2..(MaxScrollRows + 2)]
    /\ fn_out = <<>>

\* from the top of show_scrollback to the first frame; an empty buffer returns at once
OpenScrollback ==
    /\ mode = "panes" /\ fn_pc = "input"
    /\ LET total_lines == Len(trackers[1].raw_lines)
           content_h == fn_in.th - 2
       IN /\ fn_out' = [total_lines |-> total_lines, content_h |-> content_h,
                        scroll_offset |-> SatSub(total_lines, content_h)]
          /\ IF total_lines = 0
             THEN fn_pc' = "returned" /\ mode' = mode
             ELSE fn_pc' = "browse" /\ mode' = "scrollback"
    /\ UNCHANGED <<inodes, pathIno, trackers, max_buffer_lines, filter, pc, content_changed,
                   clock, nextTid, ret, loopvars, terminal, fn_in>>

ScrollbackKey ==
    /\ mode = "scrollback"
    /\ \E key \in ScrollbackKeys :
         fn_out' = [fn_out EXCEPT !.scroll_offset =
                       scrollback_key(@, fn_out.total_lines, fn_out.content_h, key)]
    /\ UNCHANGED <<svars, fn_pc, fn_in>>

\* q, Esc or Ctrl+C: break, and the pane view is rendered again
ScrollbackReturn ==
    /\ mode = "scrollback"
    /\ mode' = "panes"
    /\ fn_pc' = "returned"
    /\ UNCHANGED <<inodes, pathIno, trackers, max_buffer_lines, filter, pc, content_changed,
                   clock, nextTid, ret, loopvars, terminal, fn_in, fn_out>>

NextScrollback == OpenScrollback \/ ScrollbackKey \/ ScrollbackReturn

SpecScrollback == InitScrollback /\ [][NextScrollback]_vars

(***************************************************************************)
(* Properties.                                                             *)
(***************************************************************************)

\* C1: in pane mode and in scroll mode, the raw-line buffer and the styled-line
\* buffer of every tracker have the same length in every reachable state.
C1_BuffersSameLength ==
    \A k \in 1..Len(trackers) : Len(trackers[k].raw_lines) = Len(trackers[k].lines)

\* C2: in pane mode the buffers of every tracker hold at most max_lines lines in
\* every reachable state, the state right after the tracker is created included.
C2_BuffersWithinCapacity ==
    mode = "panes" =>
        \A k \in 1..Len(trackers) :
            /\ Len(trackers[k].raw_lines) <= trackers[k].max_lines
            /\ Len(trackers[k].lines) <= trackers[k].max_lines

RECURSIVE Accepted(_, _)
Accepted(f, ls) ==
    IF ls = <<>> THEN <<>>
    ELSE (IF should_show_line(f, Head(ls)) THEN <<Head(ls)>> ELSE <<>>)
         \o Accepted(f, Tail(ls))

\* the step is a poll of tracker k
PollOf(k) == pc = k /\ pc' # pc

\* C4: from one state to the next the read offset of a tracker decreases only in
\* a poll of that tracker, not paused, that either detected a rotation and
\* reopened the path (the offset is reset to 0 and then advanced by what the
\* poll reads of the new file) or kept its file, of unchanged identity, and
\* found its size below the offset (the offset is then exactly 0); every other
\* step leaves the offset unchanged or increases it.
C4_OffsetDecreasesOnlyByReset ==
    [][\A k \in 1..Len(trackers) :
         LET t == trackers[k]
             tn == trackers'[k]
         IN tn.position < t.position =>
              /\ PollOf(k)
              /\ ~t.paused
              /\ \/ /\ t.file_id # pathIno
                    /\ ret'.rotated
                    /\ tn.file_id = pathIno
                    /\ tn.position = Len(inodes[pathIno])
                 \/ /\ ~ret'.rotated
                    /\ tn.file_id = t.file_id
                    /\ tn.file = t.file
                    /\ Len(inodes[t.file]) < t.position
                    /\ tn.position = 0]_vars

\* C4 witness: a poll completed a rotation and left the offset below the one it
\* started from.
C4_Witness ==
    /\ ret.ev = "rotated"
    /\ \E k \in 1..Len(trackers) :
         /\ trackers[k].file_id = pathIno
         /\ trackers[k].position < ret.position_before

\* C5: a pane-mode poll of a non-paused tracker at identity A that finds identity
\* B at the path and reopens it pushes first every accepted line of A beyond the
\* offset, then the accepted lines of B from byte 0; afterwards the handle and
\* the tracked identity are B, the offset is the size B had when sampled, the
\* poll reports rotated = true and the line counter is not below its old value.
C5_RotationDrainsThenSwitches ==
    [][\A k \in 1..Len(trackers) :
         LET t == trackers[k]
             tn == trackers'[k]
             f == active_filter(t, filter)
             fromA == Accepted(f, clean_lines(Drop(inodes'[t.file], t.position)))
             fromB == Accepted(f, clean_lines(inodes'[pathIno]))
         IN (mode = "panes" /\ PollOf(k) /\ ~t.paused /\ t.file_id # pathIno
               /\ ret'.ev = "rotated") =>
              /\ ret'.pushed = fromA \o fromB
              /\ tn.file = pathIno
              /\ tn.file_id = pathIno
              /\ tn.position = Len(inodes[pathIno])
              /\ ret'.rotated
              /\ tn.line_count >= t.line_count]_vars

\* C5 witness: a rotation poll pushed one line drained from the old file and
\* then one line of the new file.
C5_Witness ==
    /\ mode = "panes"
    /\ ret.ev = "rotated"
    /\ ret.rotated
    /\ pathIno = 2
    /\ ret.position_before < Len(inodes[1])
    /\ inodes[2] = <<"a", NL>>
    /\ Len(ret.pushed) = 2
    /\ trackers[1].file_id = 2

\* C6: a pane-mode poll of a non-paused tracker whose file has the tracked
\* identity and a size below the offset sets the offset to 0 and empties both
\* buffers; a poll of a tracker at offset 0 whose file, of the tracked identity,
\* has size > 0 pushes every accepted line of the file from byte 0, each once.
C6_TruncationResetsAndRereads ==
    [][\A k \in 1..Len(trackers) :
         LET t == trackers[k]
             tn == trackers'[k]
             f == active_filter(t, filter)
         IN (mode = "panes" /\ PollOf(k) /\ ~t.paused /\ t.file_id = pathIno) =>
              /\ Len(inodes[t.file]) < t.position =>
                   /\ tn.position = 0
                   /\ tn.lines = <<>>
                   /\ tn.raw_lines = <<>>
              /\ (t.position = 0 /\ Len(inodes[t.file]) > 0) =>
                   ret'.pushed = Accepted(f, clean_lines(inodes'[t.file]))]_vars

\* C6 witness: a poll found a file that was truncated and partly rewritten below
\* the offset; the offset is 0 and the buffers are empty.
C6_Witness ==
    /\ mode = "panes"
    /\ ret.ev = "truncated"
    /\ ret.position_before > Len(inodes[pathIno])
    /\ Len(inodes[pathIno]) > 0
    /\ \E k \in 1..Len(trackers) :
         /\ trackers[k].position = 0
         /\ trackers[k].lines = <<>>
         /\ trackers[k].raw_lines = <<>>

\* C7: a poll of a paused tracker changes no field of the tracker (offset,
\* buffers, line counter, last-update time, tracked identity, handle), changes no
\* file and reports (rotated = false, new content = false).
C7_PausedPollIsNoOp ==
    [][\A k \in 1..Len(trackers) :
         (mode = "panes" /\ PollOf(k) /\ trackers[k].paused) =>
              /\ trackers'[k] = trackers[k]
              /\ inodes' = inodes
              /\ ~ret'.rotated
              /\ ~ret'.had_new]_vars

\* C7 witness: a paused tracker was polled while the path held another file and
\* its own file had grown beyond the offset.
C7_Witness ==
    /\ ret.ev = "paused"
    /\ \E k \in 1..Len(trackers) :
         /\ trackers[k].paused
         /\ trackers[k].file_id # pathIno
         /\ Len(inodes[trackers[k].file]) > trackers[k].position

\* C8: pad_ansi(s, w) contains exactly w visible characters, for every string s
\* (escape sequences, also unterminated ones, tabs, control characters) and
\* every width w >= 0.
C8_PadWidthExact ==
    fn_pc = "done" => Len(Visible(fn_out)) = fn_in.w

\* C8 witness: a string with a tab and an unterminated escape sequence was padded
\* to a width it does not fill.
C8_Witness ==
    /\ fn_pc = "done"
    /\ fn_in.s = <<"a", TAB, ESC, "[">>
    /\ fn_in.w = MaxPadWidth
    /\ Len(Visible(fn_out)) = MaxPadWidth

\* the visible characters of a displayed string, each with whether the terminal
\* shows it in reverse video (on after ESC[7m, off after ESC[27m or ESC[0m)
RECURSIVE ShownFrom(_, _, _, _, _)
ShownFrom(str, i, in_escape, seq, reverse) ==
    IF i > Len(str) THEN <<>>
    ELSE LET ch == str[i]
         IN IF in_escape
            THEN LET done == Append(seq, ch)
                 IN IF is_ascii_alphabetic(ch)
                    THEN ShownFrom(str, i + 1, FALSE, <<>>,
                                   IF done = REVERSE_ON THEN TRUE
                                   ELSE IF done \in {REVERSE_OFF, to_ansi_reset} THEN FALSE
                                   ELSE reverse)
                    ELSE ShownFrom(str, i + 1, TRUE, done, reverse)
            ELSE IF ch = ESC THEN ShownFrom(str, i + 1, TRUE, <<ESC>>, reverse)
            ELSE IF is_control(ch) THEN ShownFrom(str, i + 1, FALSE, <<>>, reverse)
            ELSE <<<<ch, reverse>>>> \o ShownFrom(str, i + 1, FALSE, <<>>, reverse)

\* the visible characters of a raw line, each with whether a match of re covers it
RECURSIVE CoveredFrom(_, _, _)
CoveredFrom(raw, re, i) ==
    IF i > Len(raw) THEN <<>>
    ELSE LET starts == find_iter(re, raw, 1)
             covered == \E k \in 1..Len(starts) : starts[k] <= i /\ i < starts[k] + Len(re)
         IN (IF is_control(raw[i]) THEN <<>> ELSE <<<<raw[i], covered>>>>)
            \o CoveredFrom(raw, re, i + 1)

\* C9: for every raw line, also with tabs or multi-byte characters, and every
\* pattern, the characters highlight_search_matches shows in reverse video are
\* exactly the visible characters of the raw line that a match covers.
C9_HighlightExactlyMatches ==
    fn_pc = "done" =>
        ShownFrom(fn_out, 1, FALSE, <<>>, FALSE) = CoveredFrom(fn_in.raw, fn_in.re, 1)

\* C10: for every rule set and every line without escape characters, the
\* visible characters of colorize_line(line) are the line itself.
C10_ColorizePreservesVisible ==
    fn_pc = "done" => Visible(fn_out) = fn_in.line


\* C11: when some line rule matches the line, colorize_line returns the line
\* wrapped once in the color of the first matching line rule, in list order,
\* followed by a reset, with no word rule and no base color applied; when no
\* line rule matches, the result is the word-rule pass wrapped in the base color.
C11_FirstLineRuleWins ==
    fn_pc = "done" =>
        LET rules == fn_in.theme.line_rules
            matching == {k \in 1..Len(rules) : is_match(rules[k].pattern, fn_in.line)}
            first == CHOOSE k \in matching : \A j \in matching : k <= j
            words == ApplyWordRules(fn_in.theme, fn_in.line, fn_in.theme.word_rules)
        IN IF matching # {}
           THEN fn_out = (to_ansi_fg(rules[first].color) \o fn_in.line) \o to_ansi_reset
           ELSE fn_out = IF fn_in.theme.base_color = None THEN words
                         ELSE (to_ansi_fg(<<unwrap(fn_in.theme.base_color)>>) \o words)
                                  \o to_ansi_reset

\* C11 witness: two line rules match the line, word rules and a base color are
\* configured, and the line came back wrapped in the color of the first rule.
C11_Witness ==
    /\ fn_pc = "done"
    /\ fn_in.line = <<"e", "r">>
    /\ fn_in.theme.line_rules = <<RuleLineE, RuleR>>
    /\ fn_in.theme.word_rules = <<RuleE, RuleDigit>>
    /\ fn_in.theme.base_color = Some(4)
    /\ fn_out = (to_ansi_fg(<<5>>) \o <<"e", "r">>) \o to_ansi_reset

\* C12: a line passes the level check under threshold T iff the most severe
\* severity token it contains (case-insensitively, as a substring) has a priority
\* number <= that of T, or it contains no severity token and T is Info or Debug;
\* with T = Error, lines detected as Emergency..Error are shown, all others hidden.
SeverityTokens ==
    <<{<<"E","M","E","R","G">>}, {<<"A","L","E","R","T">>}, {<<"C","R","I","T">>},
      {<<"E","R","R">>}, {<<"W","A","R","N">>}, {<<"N","O","T","I","C","E">>},
      {<<"I","N","F","O">>}, {<<"D","E","B","U","G">>, <<"T","R","A","C","E">>}>>

SeveritiesIn(line) ==
    {p \in 0..7 : \E tok \in SeverityTokens[p + 1] :
                     contains([i \in 1..Len(line) |-> to_uppercase(line[i])], tok)}

C12_LevelThreshold ==
    fn_pc = "done" =>
        LET found == SeveritiesIn(fn_in.line)
        IN fn_out = IF found = {} THEN fn_in.target_level \in {6, 7}
                    ELSE \E p \in found : (\A q \in found : p <= q) /\ p <= fn_in.target_level

C12_Witness ==
    /\ fn_pc = "done"
    /\ fn_in.target_level = 3
    /\ fn_in.line = <<"W","A","R","N","I","N","G"," ","s","t","d","e","r","r"," ">>
    /\ fn_out = TRUE

\* C13: render_frame hands the terminal either nothing (the size cannot be read,
\* or the terminal is smaller than 2 rows per pane or 10 columns) or exactly one
\* buffer that begins with the begin-synchronized-update marker, ends with the
\* end marker, has no marker in between, and moves to and prints every row of
\* every pane in between.
C13_FrameIsAtomic ==
    fn_pc = "done" =>
        LET out == fn_out.written
            n == Len(fn_in.trackers)
            fits == /\ fn_in.size # None
                    /\ unwrap(fn_in.size)[2] >= 2 * n
                    /\ unwrap(fn_in.size)[1] >= 10
        IN IF ~fits THEN out = <<>>
           ELSE /\ Len(out) = 1
                /\ out[1][1].cmd = "BeginSynchronizedUpdate"
                /\ out[1][Len(out[1])].cmd = "EndSynchronizedUpdate"
                /\ \A j \in 2..(Len(out[1]) - 1) :
                       out[1][j].cmd \notin {"BeginSynchronizedUpdate", "EndSynchronizedUpdate"}
                /\ \A row \in 0..(unwrap(fn_in.size)[2] - 1) :
                       \E j \in 2..(Len(out[1]) - 2) :
                           /\ out[1][j] = Cmd("MoveTo", <<0, row>>)
                           /\ \E m \in (j + 1)..(j + 3) : out[1][m].cmd = "Print"

C13_Witness ==
    /\ fn_pc = "done"
    /\ Len(fn_in.trackers) = 3
    /\ fn_in.size = Some(<<40, 7>>)
    /\ Len(fn_out.written) = 1
    /\ Len(fn_out.written[1]) = 2 + (2 * 4) + (3 * 5)

\* C14: for N >= 1 panes on a terminal of rows >= 2N and cols >= 10, the frame
\* moves to rows 0 .. rows-1 once each, in order; the status bars are printed
\* exactly on the last row of each pane when every pane but the last has rows / N
\* rows and the last has the remainder too, bar k carrying the index k; every
\* other row is a content row.
StatusRows(n, rows) ==
    {(k * (rows \div n)) - 1 : k \in 1..(n - 1)} \cup {rows - 1}

C14_RowBudget ==
    (fn_pc = "done" /\ fn_in.size # None) =>
        LET n == Len(fn_in.trackers)
            cols == unwrap(fn_in.size)[1]
            rows == unwrap(fn_in.size)[2]
        IN (rows >= 2 * n /\ cols >= 10) =>
            LET buf == fn_out.written[1]
                moves == {j \in 1..Len(buf) : buf[j].cmd = "MoveTo"}
            IN /\ Cardinality(moves) = rows
               /\ \A j \in moves : buf[j].arg = <<0, Cardinality({m \in moves : m < j})>>
               /\ \A j \in moves :
                      IF buf[j].arg[2] \in StatusRows(n, rows)
                      THEN /\ buf[j + 1].cmd = "SetBackgroundColor"
                           /\ buf[j + 3].cmd = "Print"
                           /\ LET k == Cardinality({r \in StatusRows(n, rows) : r < buf[j].arg[2]})
                              IN SubSeq(buf[j + 3].arg, 1, 2) = Decimal(k) \o <<"]">>
                      ELSE buf[j + 1].cmd = "Print"

C14_Witness ==
    /\ fn_pc = "done"
    /\ Len(fn_in.trackers) = 3
    /\ fn_in.size = Some(<<10, 7>>)
    /\ LET buf == fn_out.written[1]
       IN /\ \E j \in 1..Len(buf) : buf[j] = Cmd("MoveTo", <<0, 3>>)
                                    /\ buf[j + 1].cmd = "SetBackgroundColor"
          /\ \E j \in 1..Len(buf) : buf[j] = Cmd("MoveTo", <<0, 5>>) /\ buf[j + 1].cmd = "Print"
          /\ \E j \in 1..Len(buf) : buf[j] = Cmd("MoveTo", <<0, 6>>)
                                    /\ buf[j + 1].cmd = "SetBackgroundColor"

\* C15: in pane mode, as long as the session has not quit, polls keep happening
\* whatever the user types or does not type, a popup being open included: at all
\* times a poll returns later on, or the session has quit.
C15_PollingNeverStalls == []<>(mode = "stopped" \/ ret.ev # "none")

\* Unread(i, n): the tracker follows file i, which holds at least n bytes, and has
\* not read byte n.  Delivered(i, n): the tracker has read byte n of file i (what
\* it reads it pushes, if the filter accepts it), or has drained file i and
\* switched to its replacement.
Unread(i, n) ==
    /\ mode = "panes"
    /\ trackers[1].file = i
    /\ i <= Len(inodes)
    /\ Len(inodes[i]) >= n
    /\ trackers[1].position < n

Delivered(i, n) == trackers[1].file # i \/ trackers[1].position >= n

C17_CooperativeCancellation ==
    [][/\ (running' # running) =>
              /\ running /\ ~running'
              /\ UNCHANGED <<mode, inodes, pathIno, trackers, max_buffer_lines, filter, pc,
                             content_changed, clock, nextTid, ret, rx>>
       /\ (mode \in {"scroll", "single"} /\ ~running) =>
              /\ pc' # 1 \/ pc = 1
              /\ (pc = 0 /\ clock' # clock) => (mode' = "stopped" /\ trackers' = trackers)
       /\ (mode \in {"scroll", "single"} /\ running) => mode' = mode
       /\ (mode = "panes" /\ mode' # mode) => (pc = 0 /\ mode' = "stopped")
       /\ mode = "stopped" => mode' = "stopped"]_vars

\* C17 witness: the single-file loop stopped at the check that followed an
\* iteration whose reopen of the rotated path failed.
C17_Witness ==
    /\ mode = "stopped"
    /\ ~running
    /\ ret.ev = "reopen_failed"
    /\ trackers[1].file_id # pathIno
    /\ trackers[1].max_lines = 0

\* C18: a pane-mode poll of a tracker, not paused, whose path has another identity
\* than the tracked one: if the path cannot be reopened, the tracker keeps its
\* handle and its tracked identity (so the next poll detects the rotation again),
\* its offset does not decrease (the drain may advance it), the poll
\* reports rotated = false and the loop goes on; if the reopen succeeds,
\* in this or in a later poll, the tracker ends on the new file, read from offset
\* 0 to its end, with the new identity and rotated = true.
C18_FailedReopenIsRetried ==
    [][\A k \in 1..Len(trackers) :
         LET t == trackers[k]
             tn == trackers'[k]
         IN (mode = "panes" /\ PollOf(k) /\ ~t.paused /\ t.file_id # pathIno) =>
              IF ret'.ev = "reopen_failed"
              THEN /\ tn.file = t.file
                   /\ tn.file_id = t.file_id
                   /\ tn.file_id # pathIno'
                   /\ tn.position >= t.position
                   /\ ~ret'.rotated
                   /\ mode' = "panes"
              ELSE /\ ret'.ev = "rotated"
                   /\ ret'.rotated
                   /\ tn.file = pathIno
                   /\ tn.file_id = pathIno
                   /\ tn.position = Len(inodes[pathIno])]_vars

\* C18 witness: the reopen failed in a poll that had drained a line from the old
\* file; the tracker is still on the old file, past the drained line.
C18_Witness ==
    /\ mode = "panes"
    /\ ret.ev = "reopen_failed"
    /\ ~ret.rotated
    /\ pathIno = 2
    /\ trackers[1].file = 1
    /\ trackers[1].file_id = 1
    /\ ret.pushed = <<<<"a">>>>
    /\ ret.position_before = 0
    /\ trackers[1].position = 2

\* C19: when the set-filter command is given an include or an exclude expression
\* that does not compile, or when the window selection or one of the two prompts
\* is dismissed, every tracker, its per-window filter and its buffers included,
\* the global filter and the files are exactly what they were before.
InvalidExpression(text) ==
    is_some(text) /\ unwrap(text) # <<>> /\ ~regex_compiles(unwrap(text))

C19_RejectedFilterChangesNothing ==
    [][\A idx \in 0..Len(trackers), include_result \in IncludeTexts,
          exclude_result \in ExcludeTexts :
         (/\ SetFilterWith(idx, include_result, exclude_result)
          /\ \/ idx = 0 \/ include_result = None \/ exclude_result = None
             \/ InvalidExpression(include_result) \/ InvalidExpression(exclude_result))
         => (trackers' = trackers /\ filter' = filter /\ inodes' = inodes /\ mode' = mode)]_vars

\* C19 witness: an invalid expression was rejected while the window had an
\* override set by an earlier command; the override is still in place.
C19_Witness ==
    /\ mode = "panes"
    /\ ret.ev = "filter_rejected"
    /\ trackers[1].filter = LineFilter_new(Some(<<"x">>), None, None)
    /\ clock = 2

\* C20: when the add-file command cannot open the entered path (the path does not
\* exist, the first File::open fails, or the file stops being openable before its
\* initial lines are read), the event loop keeps running and the tracker
\* collection is unchanged.
C20_AddFileFailureIsNotFatal ==
    [][\A entered \in BOOLEAN, exists \in BOOLEAN, open1 \in BOOLEAN, open2 \in BOOLEAN :
         (AddFileWith(entered, exists, open1, open2)
          /\ entered /\ ~(exists /\ open1 /\ open2))
         => (mode' = "panes" /\ trackers' = trackers)]_vars

\* C21: a failure to create the watcher or to register a watch never terminates a
\* follow session: after such a failure the session is in one of its loops, where
\* the tracked files are polled.  (At session start the three loop functions
\* return the error instead.)
C21_WatchFailureIsNotFatal ==
    ret.ev \in {"watcher_failed", "watch_failed"} => mode \in {"panes", "scroll", "single"}

\* C22: follow_multiple_files answers a failure of enable_raw_mode or of
\* EnterAlternateScreen by calling the scroll loop, after disable_raw_mode when raw
\* mode had been enabled; and when the pane loop was called, Show,
\* LeaveAlternateScreen and disable_raw_mode are the last calls issued before
\* follow_multiple_files returns, whether the loop ended by a quit or by an error.
C22_FallbackAndRestore ==
    [][/\ mode = "setup" =>
            /\ mode' \in {"scroll_setup", "panes_setup"}
            /\ mode' = "scroll_setup" =>
                 /\ ~terminal'.raw /\ ~terminal'.alt
                 /\ Len(terminal'.issued) > 1 =>
                        terminal'.issued[Len(terminal'.issued)] = "disable_raw_mode"
            /\ mode' = "panes_setup" => terminal'.raw /\ terminal'.alt
       /\ (mode' \in {"returned_ok", "returned_err"} /\ terminal.alt) =>
            /\ LastN(terminal'.issued, 3) = <<"Show", "LeaveAlternateScreen", "disable_raw_mode">>
            /\ ~terminal'.raw /\ ~terminal'.alt]_vars

\* C22 witness: the pane loop was entered, add-file ended it with an error, and the
\* terminal was restored before follow_multiple_files returned.
C22_Witness ==
    /\ mode = "returned_err"
    /\ Len(trackers) >= 1
    /\ LastN(terminal.issued, 3) = <<"Show", "LeaveAlternateScreen", "disable_raw_mode">>

\* the bytes of a file after its last line terminator, read from an offset on
UnterminatedTail(bytes, offset) ==
    LET last_nl == IF \E i \in 1..Len(bytes) : bytes[i] = NL
                   THEN CHOOSE i \in 1..Len(bytes) :
                          bytes[i] = NL /\ \A j \in (i + 1)..Len(bytes) : bytes[j] # NL
                   ELSE 0
    IN Drop(bytes, IF last_nl > offset THEN last_nl ELSE offset)

\* C23: when the read of a poll ends with bytes that no line terminator follows,
\* the poll pushes those bytes as a line and leaves the offset after them, at the
\* end of the file, so that the next poll reads only what the writer adds later.
C23_UnterminatedTailConsumed ==
    [][(/\ mode = "panes" /\ pc \in 1..Len(trackers)
        /\ ret'.ev = "grew"
        /\ inodes'[pathIno][Len(inodes'[pathIno])] # NL)
       => /\ ret'.pushed # <<>>
          /\ ret'.pushed[Len(ret'.pushed)] = UnterminatedTail(inodes'[pathIno], trackers[pc].position)
          /\ trackers'[pc].position = Len(inodes'[pathIno])]_vars

\* C24: every raw line a poll pushes is the line of the file without its trailing
\* \n and \r characters and with every other character kept, trailing spaces and
\* tabs included, and it is the text get_last_n_lines yields for the same line.
C24_OnlyTerminatorsStripped ==
    fn_pc = "done" =>
        /\ fn_out.poll = fn_out.load
        /\ \A i \in 1..Len(fn_out.poll) :
             LET file_line == read_lines(fn_in.bytes, <<>>)[i]
                 pushed_line == fn_out.poll[i]
             IN /\ SubSeq(file_line, 1, Len(pushed_line)) = pushed_line
                /\ \A j \in (Len(pushed_line) + 1)..Len(file_line) : file_line[j] \in {NL, CR}

\* C25: check_file_updates returns new-content = true exactly when that poll
\* appended at least one line to the tracker's buffers, whichever path it took.
C25_NewContentIffAppended ==
    mode = "panes" => (ret.had_new <=> ret.pushed # <<>>)

\* the escape sequences of a string in order, each from ESC up to and including
\* the first ASCII letter (an unfinished one is closed by the end of the string)
EscapeSeqs(str) ==
    LET starts == SelectSeq([i \in 1..Len(str) |-> i],
                            LAMBDA i : str[i] = ESC /\ ~InEscapeAfter(str, i - 1))
        end_of(i) == IF \E k \in (i + 1)..Len(str) : is_ascii_alphabetic(str[k])
                     THEN CHOOSE k \in (i + 1)..Len(str) :
                            /\ is_ascii_alphabetic(str[k])
                            /\ \A l \in (i + 1)..(k - 1) : ~is_ascii_alphabetic(str[l])
                     ELSE Len(str)
    IN [n \in 1..Len(starts) |-> SubSeq(str, starts[n], end_of(starts[n]))]

\* whether the elements of a occur in b in the same order
RECURSIVE IsSubsequence(_, _)
IsSubsequence(a, b) ==
    IF a = <<>> THEN TRUE
    ELSE IF b = <<>> THEN FALSE
    ELSE IF Head(a) = Head(b) THEN IsSubsequence(Tail(a), Tail(b))
    ELSE IsSubsequence(a, Tail(b))

\* C26: word rules never double-wrap.  When no line rule matches and two word rules
\* are applied in order, every escape sequence emitted by the first rule is still
\* in the result, whole and in order, and (the patterns matching one character) no
\* visible character is wrapped more than once, so the result holds at most two
\* escape sequences per visible character besides the two of the base color.
C26_WordRulesNeverDoubleWrap ==
    (/\ fn_pc = "done"
     /\ FirstLineRule(fn_in.theme.line_rules, fn_in.line) = None
     /\ Len(fn_in.theme.word_rules) = 2)
    => /\ IsSubsequence(EscapeSeqs(apply_word_rule(fn_in.theme, fn_in.line,
                                                   fn_in.theme.word_rules[1])),
                        EscapeSeqs(fn_out))
       /\ Len(EscapeSeqs(fn_out)) <= 2 * Len(Visible(fn_out)) + 2

\* the indices, in a frame, of the commands that set the status bar's background:
\* one for each pane, in pane order, right after the move to the pane's status row
StatusBarsOf(buf) ==
    SelectSeq([j \in 1..Len(buf) |-> j], LAMBDA j : buf[j].cmd = "SetBackgroundColor")

\* whether row i (0-based) of the content rows of a pane, the pane's status bar
\* being set at index bar of the frame, is the row the bottom alignment of the
\* buffer puts there: the line counted back from the most recent one, which is in
\* the last content row, or a blank row where the buffer has no line left
BottomAligned(buf, bar, t, i, content_h, w) ==
    LET li == Len(t.lines) - ((content_h - 1) - i)
        text == buf[(bar - (2 * content_h)) + (2 * i)].arg
    IN IF li >= 1 THEN Visible(text) = SubSeq(Visible(t.lines[li]) \o Spaces(w), 1, w)
       ELSE text = Spaces(w)

\* C27: in every pane of a rendered frame the content is bottom-aligned: the most
\* recent buffered line is in the content row just above the status row, the lines
\* before it are above it in buffer order, and when the buffer has fewer lines than
\* the pane has content rows the blank rows are at the top.
C27_ContentBottomAligned ==
    (fn_pc = "done" /\ fn_out.written # <<>>) =>
        LET buf == fn_out.written[1]
            bars == StatusBarsOf(buf)
        IN \A n \in 1..Len(bars) :
              LET row == buf[bars[n] - 1].arg[2]
                  above == IF n = 1 THEN 0 - 1 ELSE buf[bars[n - 1] - 1].arg[2]
              IN \A i \in 0..(row - above - 2) :
                    BottomAligned(buf, bars[n], fn_in.trackers[n], i, row - above - 1,
                                  unwrap(fn_in.size)[1])

\* C28: the status row text write_pane prints is exactly as many columns long as
\* the pane is wide, a column being one character of the text, whatever the path,
\* the indicators and the line count.
C28_StatusRowExactWidth ==
    (fn_pc = "done" /\ fn_out.written # <<>>) =>
        \A j \in 1..Len(fn_out.written[1]) :
            fn_out.written[1][j].cmd = "SetBackgroundColor" =>
                Len(fn_out.written[1][j + 2].arg) = unwrap(fn_in.size)[1]

\* the lines of ls that filter f shows
ShownLines(f, ls) == SelectSeq(ls, LAMBDA l : should_show_line(f, l))

\* C29: the lines a poll appends to a tracker's buffers are exactly the lines it
\* read that the tracker's own filter accepts when the tracker has one, and that
\* the global filter accepts otherwise, for lines of the current file (the poll
\* found the file grown) and for lines drained from a rotated-away handle (the
\* poll found the path replaced and could not reopen it).
C29_ActiveFilterDecides ==
    [][(/\ mode = "panes" /\ pc \in 1..Len(trackers)
        /\ ret'.ev \in {"grew", "reopen_failed"})
       => ret'.pushed =
            ShownLines(IF is_some(trackers[pc].filter) THEN unwrap(trackers[pc].filter)
                       ELSE filter,
                       IF Len(inodes[trackers[pc].file]) > trackers[pc].position
                       THEN clean_lines(Drop(inodes'[trackers[pc].file],
                                             trackers[pc].position))
                       ELSE <<>>)]_vars

\* C29 witness: a tracker with an include-x override has just been polled and got
\* the line "x", which the global filter excludes.
C29_Witness ==
    /\ mode = "panes"
    /\ ret.ev = "grew"
    /\ ret.pushed = <<(<<"x">>)>>
    /\ is_some(trackers[1].filter)
    /\ ~should_show_line(filter, <<"x">>)

\* C30: should_show_line(line) is true exactly when the line does not match the
\* exclude pattern if one is set, matches the include pattern if one is set and
\* passes the severity check if a threshold is set; a line matching both patterns
\* is hidden, and a filter with none of the three shows every line.
C30_ShouldShowLine ==
    fn_pc = "done" =>
        /\ fn_out <=>
             /\ is_some(fn_in.f.exclude_regex) =>
                    ~is_match(unwrap(fn_in.f.exclude_regex), fn_in.line)
             /\ is_some(fn_in.f.include_regex) =>
                    is_match(unwrap(fn_in.f.include_regex), fn_in.line)
             /\ is_some(fn_in.f.level_filter) =>
                    line_matches_level(fn_in.line, unwrap(fn_in.f.level_filter))
        /\ (/\ is_some(fn_in.f.exclude_regex) /\ is_some(fn_in.f.include_regex)
            /\ is_match(unwrap(fn_in.f.exclude_regex), fn_in.line)
            /\ is_match(unwrap(fn_in.f.include_regex), fn_in.line)) => ~fn_out
        /\ fn_in.f = ShowAll => fn_out

\* C30 witness: the line "er" matches the include pattern e and the exclude
\* pattern r of the filter and is hidden.
C30_Witness ==
    /\ fn_pc = "done"
    /\ fn_in.line = <<"e", "r">>
    /\ is_some(fn_in.f.include_regex) /\ is_some(fn_in.f.exclude_regex)
    /\ fn_in.f.level_filter = None
    /\ fn_out = FALSE

\* C31: in pane mode the two buffers of every tracker are paired index for
\* index: they have the same length and the styled line at each index is the
\* colorization of the raw line at that index, so the raw line write_pane takes
\* for a visible row (raw_start + i) is the counterpart of the styled line drawn
\* in that row (start + i).
C31_BuffersPaired ==
    mode = "panes" =>
        \A k \in 1..Len(trackers) :
            /\ Len(trackers[k].lines) = Len(trackers[k].raw_lines)
            /\ \A i \in 1..Len(trackers[k].lines) :
                   trackers[k].lines[i] = colorize(trackers[k].raw_lines[i])
            /\ \A content_h \in 0..MaxRows :
                   SatSub(Len(trackers[k].lines), content_h)
                     = SatSub(Len(trackers[k].raw_lines), content_h)

\* C31 witness: a poll has just pushed a line that the colorizer changes, after
\* an eviction made room for it.
C31_Witness ==
    /\ mode = "panes"
    /\ ret.ev = "grew"
    /\ ret.pushed # <<>>
    /\ trackers[1].line_count > 1
    /\ trackers[1].lines # <<>>
    /\ trackers[1].lines[1] # trackers[1].raw_lines[1]

\* C32: a poll of the pane loop that changes the buffers or the running line
\* counter of its tracker leaves the frame marked dirty, so that the frame is
\* rendered (if content_changed, on a terminal large enough to draw) before the
\* keyboard is checked; and the poll phase marks the frame dirty only when a
\* tracker reported new content or rotation.
C32_PollChangeIsRendered ==
    [][(/\ mode = "panes" /\ pc \in 1..Len(trackers) /\ pc' # pc)
       => /\ (\/ trackers'[pc].lines # trackers[pc].lines
              \/ trackers'[pc].raw_lines # trackers[pc].raw_lines
              \/ trackers'[pc].line_count # trackers[pc].line_count)
                => content_changed'
          /\ content_changed' => (content_changed \/ ret'.had_new \/ ret'.rotated)]_vars

\* the tracker u is the tracker t but for its paused flag
SameButPaused(t, u) == [t EXCEPT !.paused = u.paused] = u

\* C33: 'p' leaves every tracker with the same paused flag, set if no tracker
\* was paused before and cleared if at least one was; 'P' flips the flag of the
\* selected tracker and leaves every other tracker as it was, and changes
\* nothing when the selection is dismissed; neither command changes an offset,
\* a buffer or a line counter.
C33_PauseCommands ==
    [][/\ PauseAll =>
            /\ Len(trackers') = Len(trackers)
            /\ \A k \in 1..Len(trackers) :
                 /\ trackers'[k].paused = ~(\E j \in 1..Len(trackers) : trackers[j].paused)
                 /\ SameButPaused(trackers[k], trackers'[k])
       /\ PauseOne =>
            \/ trackers' = trackers
            \/ /\ Len(trackers') = Len(trackers)
               /\ \E idx \in 1..Len(trackers) :
                    /\ trackers'[idx].paused = ~trackers[idx].paused
                    /\ SameButPaused(trackers[idx], trackers'[idx])
                    /\ \A k \in 1..Len(trackers) : k # idx => trackers'[k] = trackers[k]]_vars

\* C33 witness: of two trackers 'P' has paused the second one only, after 'p'
\* could not have done it.
C33_Witness ==
    /\ mode = "panes"
    /\ Len(trackers) = 2
    /\ ~trackers[1].paused /\ trackers[2].paused
    /\ trackers[1].lines # <<>>
    /\ pc = 1 /\ clock = 2

\* C34: in a pane session all trackers carry the same search term, trackers
\* added by the add-file command included.
C34_SearchTermIsGlobal ==
    mode = "panes" =>
        \A j, k \in 1..Len(trackers) : trackers[j].search_term = trackers[k].search_term

\* what the poll of tracker t emits when the rotation handling is retried and
\* the reopen fails again, nothing having happened to the files in between
RetryEmits(loop, t, fs, path_id, global, now) ==
    IF loop = "panes"
    THEN check_file_updates(t, fs, path_id, global, now, FALSE, <<>>, <<>>).t.polled
    ELSE IF loop = "scroll"
    THEN scroll_poll(t, fs, path_id, global, FALSE, <<>>, <<>>).printed
    ELSE follow_poll(t, fs, path_id, global, FALSE, <<>>, <<>>).printed

\* C35: in the three follow loops the lines drained from a rotated-away handle
\* are emitted at most once: after a poll that found the path replaced, emitted
\* the lines left in the old file and could not reopen the path, the retry of
\* the rotation handling emits nothing, as long as nothing is written to the old
\* file during the poll or before the retry.
C35_DrainedLinesEmittedOnce ==
    [][(/\ pc \in 1..Len(trackers) /\ pc' # pc
        /\ ret'.ev = "reopen_failed"
        /\ (ret'.pushed # <<>> \/ ret'.printed # <<>>)
        /\ inodes' = inodes)
       => RetryEmits(mode, trackers'[pc], inodes', pathIno', filter', clock') = <<>>]_vars

\* C36: each byte of a tracked file is consumed by at most one poll: after a
\* poll of the pane loop that read the file to its end, the following poll
\* pushes nothing if nothing was written after that read, whether or not a
\* writer appended between the size sample and the read of the first poll.
C36_ByteConsumedOnce ==
    [][(/\ mode = "panes" /\ pc \in 1..Len(trackers) /\ pc' # pc
        /\ ret'.ev = "grew")
       => check_file_updates(trackers'[pc], inodes', pathIno', filter', clock',
                             TRUE, <<>>, <<>>).t.polled = <<>>]_vars

\* C37: the running line counter of a tracker never decreases as long as the
\* tracker exists, and a poll of the pane loop adds to it exactly the number of
\* lines it appends to the buffers.
C37_LineCounterIsRunningTotal ==
    [][/\ \A k \in 1..Len(trackers), j \in 1..Len(trackers') :
            trackers'[j].tid = trackers[k].tid
                => trackers'[j].line_count >= trackers[k].line_count
       /\ (mode = "panes" /\ pc \in 1..Len(trackers) /\ pc' # pc)
            => trackers'[pc].line_count = trackers[pc].line_count + Len(ret'.pushed)]_vars

\* C38: in pane mode the tracker collection is never empty, whatever add-file
\* and delete-window commands were given, so num_files, by which render_frame
\* divides the terminal rows (th / num_files, th % num_files), is never 0.
C38_TrackersNeverEmpty ==
    mode = "panes" => Len(trackers) >= 1

\* C38 witness: a file was added and the first window was then deleted, which
\* leaves the added tracker as the only one.
C38_Witness ==
    /\ mode = "panes"
    /\ Len(trackers) = 1
    /\ trackers[1].tid = 2
    /\ nextTid = 3

\* C39: every index a command handler uses on the tracker collection is in
\* range: no access panics; while the window menu is open its names are those
\* of the current collection and its selection is below their number; the
\* single-pane view shows tracker k - 1 for a digit k between 1 and the number of
\* trackers, and a digit that was ignored is 0 or above that number.
C39_IndicesInRange ==
    /\ mode # "panicked"
    /\ mode = "menu" =>
          /\ fn_in.items = get_window_names(trackers)
          /\ fn_out \in 0..(Len(fn_in.items) - 1)
    /\ mode = "single_pane" =>
          /\ fn_in.file_num \in 1..Len(trackers)
          /\ fn_out = fn_in.file_num - 1
          /\ fn_out + 1 \in DOMAIN trackers
    /\ ret.ev = "digit_ignored" =>
          (fn_in.file_num = 0 \/ fn_in.file_num > Len(trackers))

\* C39 witness: with two windows the menu of 'd' was opened, the selection was
\* moved to the last name and Enter removed the second tracker.
C39_Witness ==
    /\ mode = "panes"
    /\ ret.ev = "selected"
    /\ fn_in.cmd = "d"
    /\ fn_out = 1
    /\ Len(trackers) = 1
    /\ nextTid = 3

\* C40: in the scrollback browser of a buffer of T >= 1 lines with H content
\* rows the scroll offset starts at max(0, T - H) and stays between 0 and
\* max(0, T - H) after every key, so the first row shown (when there is a row)
\* is a line of the buffer and the view never ends past the last line; leaving
\* the browser leaves the tracker as it was.
C40_ScrollOffsetInRange ==
    [][/\ (fn_pc = "input" /\ fn_pc' = "browse") =>
            /\ fn_out'.total_lines = Len(trackers[1].raw_lines)
            /\ fn_out'.scroll_offset = SatSub(fn_out'.total_lines, fn_out'.content_h)
       /\ fn_pc' = "browse" =>
            /\ fn_out'.total_lines >= 1
            /\ fn_out'.scroll_offset >= 0
            /\ fn_out'.scroll_offset <= SatSub(fn_out'.total_lines, fn_out'.content_h)
            /\ fn_out'.content_h >= 1 =>
                   fn_out'.scroll_offset + 1 \in DOMAIN trackers'[1].raw_lines
       /\ fn_pc' = "returned" => trackers' = trackers /\ mode' = "panes"]_vars

\* C40 witness: in a buffer of four lines shown two at a time the view was moved
\* up from the bottom to the line in the middle.
C40_Witness ==
    /\ mode = "scrollback"
    /\ fn_out.total_lines = 4
    /\ fn_out.content_h = 2
    /\ fn_out.scroll_offset = 1

=============================================================================
